---- MODULE Spec2Model ----
(***************************************************************************)
(* The k9 debug console (src/src/debug_ui/console.rs): command dispatch    *)
(* (parse -> reduce -> bind -> invoke) and the console state it resets.    *)
(*                                                                         *)
(* A Rust String is a sequence of one-character strings, so that prefix    *)
(* tests, lengths and numeric parses are computed and not assumed.         *)
(***************************************************************************)
EXTENDS Integers, Sequences, FiniteSets, TLC

(***************************************************************************)
(* Bounds of the model.                                                    *)
(***************************************************************************)
\* how many parameters more than its command defines a typed line may carry
MaxExtra == 1

(***************************************************************************)
(* Characters and strings.                                                 *)
(***************************************************************************)
Digits == {"0", "1", "2", "3", "4", "5", "6", "7", "8", "9"}

DigitValue(c) ==
    CASE c = "0" -> 0 [] c = "1" -> 1 [] c = "2" -> 2 [] c = "3" -> 3
      [] c = "4" -> 4 [] c = "5" -> 5 [] c = "6" -> 6 [] c = "7" -> 7
      [] c = "8" -> 8 [] c = "9" -> 9

\* str::starts_with
starts_with(s, prefix) ==
    /\ Len(prefix) <= Len(s)
    /\ \A i \in 1..Len(prefix) : s[i] = prefix[i]

\* String literals of the source, spelled as character sequences.
StrTrue == <<"t", "r", "u", "e">>
StrFalse == <<"f", "a", "l", "s", "e">>

(***************************************************************************)
(* CallbackArgumentType, CallbackArgumentValue, CallbackArgumentDefinition *)
(***************************************************************************)
CallbackArgumentType ==
    {"Float32", "Float64", "Int32", "Int64", "String", "Bool", "Flag"}

\* Body(value), with the value computed once (a LET definition is computed
\* again at each of its uses)
With(value, Body(_)) == CHOOSE r \in {Body(v) : v \in {value}} : TRUE

\* Option<T>
None == [some |-> FALSE]
Some(x) == [some |-> TRUE, val |-> x]

\* A CallbackArgumentValue: the variant and its payload.
Value(variant, payload) == [variant |-> variant, payload |-> payload]

Def(name, cba_type, optional) ==
    [name |-> name, cba_type |-> cba_type, optional |-> optional]

(***************************************************************************)
(* str::parse for the integer, float and bool types.                       *)
(***************************************************************************)
RECURSIVE DigitsValue(_)
\* the number a non-empty all-digit string spells
DigitsValue(s) ==
    IF s = <<>> THEN 0
    ELSE 10 * DigitsValue(SubSeq(s, 1, Len(s) - 1)) + DigitValue(s[Len(s)])

\* <i32 as FromStr>::from_str and <i64 as FromStr>::from_str: an optional
\* sign, then one or more digits.  The range check is the caller's.
ParseInt(s) ==
    LET signed == s /= <<>> /\ s[1] \in {"+", "-"}
        body == IF signed THEN Tail(s) ELSE s
    IN  IF body = <<>> \/ \E i \in 1..Len(body) : body[i] \notin Digits
        THEN None
        ELSE IF signed /\ s[1] = "-" THEN Some(0 - DigitsValue(body))
        ELSE Some(DigitsValue(body))

\* the range of i32
InI32(v) == v >= (0 - 2147483647) - 1 /\ v <= 2147483647

RECURSIVE StripZeros(_)
\* a fraction's digits without its trailing zeros
StripZeros(s) ==
    IF s /= <<>> /\ s[Len(s)] = "0" THEN StripZeros(SubSeq(s, 1, Len(s) - 1))
    ELSE s

\* <f32 as FromStr>::from_str and <f64 as FromStr>::from_str on decimal
\* literals: an optional sign, digits with at most one point, at least one
\* digit.  The value is <<sign, integer digits' value, fraction digits>>.
\* (Exponents, "inf" and "nan" are outside the typed alphabet.)
ParseFloat(s) ==
    LET signed == s /= <<>> /\ s[1] \in {"+", "-"}
        body == IF signed THEN Tail(s) ELSE s
        points == {i \in 1..Len(body) : body[i] = "."}
        wellFormed ==
            /\ \A i \in 1..Len(body) : body[i] \in Digits \cup {"."}
            /\ Cardinality(points) <= 1
            /\ \E i \in 1..Len(body) : body[i] \in Digits
        p == IF points = {} THEN Len(body) + 1 ELSE CHOOSE i \in points : TRUE
        int == DigitsValue(SubSeq(body, 1, p - 1))
        frac == StripZeros(SubSeq(body, p + 1, Len(body)))
        neg == signed /\ s[1] = "-" /\ (int /= 0 \/ frac /= <<>>)
    IN  IF wellFormed THEN Some(<<neg, int, frac>>) ELSE None

\* a boolean literal parse that takes the upper-case literals too
ParseBool_any_case(s) ==
    IF s = StrTrue \/ s = <<"T", "R", "U", "E">> THEN Some(TRUE)
    ELSE IF s = StrFalse \/ s = <<"F", "A", "L", "S", "E">> THEN Some(FALSE)
    ELSE None

\* <bool as FromStr>::from_str
ParseBool(s) ==
    IF s = StrTrue THEN Some(TRUE)
    ELSE IF s = StrFalse THEN Some(FALSE)
    ELSE None

\* the value parser with the value of a flag parsed as a boolean literal
parse_value_via_definition_flag_value(value, def) ==
    CASE def.cba_type = "Int32" ->
            LET r == ParseInt(value)
            IN  IF r.some /\ InI32(r.val) THEN Some(Value("Int32", r.val))
                ELSE None
      [] def.cba_type = "Int64" ->
            \* typed values are too short to leave the range of i64
            LET r == ParseInt(value)
            IN  IF r.some THEN Some(Value("Int64", r.val)) ELSE None
      [] def.cba_type = "Float32" ->
            LET r == ParseFloat(value)
            IN  IF r.some THEN Some(Value("Float32", r.val)) ELSE None
      [] def.cba_type = "Float64" ->
            LET r == ParseFloat(value)
            IN  IF r.some THEN Some(Value("Float64", r.val)) ELSE None
      [] def.cba_type = "String" -> Some(Value("String", value))
      [] def.cba_type = "Bool" ->
            LET r == ParseBool(value)
            IN  IF r.some THEN Some(Value("Bool", r.val))
                ELSE IF Len(value) = 1 /\ starts_with(value, <<"0">>)
                     THEN Some(Value("Bool", FALSE))
                ELSE IF Len(value) = 1 /\ starts_with(value, <<"1">>)
                     THEN Some(Value("Bool", TRUE))
                ELSE None
      [] def.cba_type = "Flag" ->
            LET r == ParseBool(value)
            IN  IF r.some THEN Some(Value("Flag", r.val)) ELSE None

(***************************************************************************)
(* parse_value_via_definition: the typed value of a raw string, or None.   *)
(***************************************************************************)
parse_value_via_definition(value, def) ==
    CASE def.cba_type = "Int32" ->
            LET r == ParseInt(value)
            IN  IF r.some /\ InI32(r.val) THEN Some(Value("Int32", r.val))
                ELSE None
      [] def.cba_type = "Int64" ->
            \* typed values are too short to leave the range of i64
            LET r == ParseInt(value)
            IN  IF r.some THEN Some(Value("Int64", r.val)) ELSE None
      [] def.cba_type = "Float32" ->
            LET r == ParseFloat(value)
            IN  IF r.some THEN Some(Value("Float32", r.val)) ELSE None
      [] def.cba_type = "Float64" ->
            LET r == ParseFloat(value)
            IN  IF r.some THEN Some(Value("Float64", r.val)) ELSE None
      [] def.cba_type = "String" -> Some(Value("String", value))
      [] def.cba_type = "Bool" ->
            LET r == ParseBool(value)
            IN  IF r.some THEN Some(Value("Bool", r.val))
                ELSE IF Len(value) = 1 /\ starts_with(value, <<"0">>)
                     THEN Some(Value("Bool", FALSE))
                ELSE IF Len(value) = 1 /\ starts_with(value, <<"1">>)
                     THEN Some(Value("Bool", TRUE))
                ELSE None
      [] def.cba_type = "Flag" -> Some(Value("Flag", TRUE))

(***************************************************************************)
(* The typed line.  The text of the input field is kept by its lexical     *)
(* structure: the characters of the command name, then the parameters in   *)
(* the order typed (runs of white space are not kept).  A typed value is   *)
(* implicit (an unquoted token), empty (`""`) or explicit (quoted: a list  *)
(* of items, each a plain character or a backslash and a character).       *)
(***************************************************************************)
Implicit(chars) == [q |-> "implicit", text |-> chars, items |-> <<>>]
EmptyQuoted == [q |-> "empty", text |-> <<>>, items |-> <<>>]
Explicit(items) == [q |-> "explicit", text |-> <<>>, items |-> items]
Plain(c) == [esc |-> FALSE, c |-> c]
Escaped(c) == [esc |-> TRUE, c |-> c]

Indexed(v) == [kind |-> "indexed", name |-> <<>>, value |-> v]
FlagParam(name) == [kind |-> "flag", name |-> name, value |-> EmptyQuoted]
Pair(name, v) == [kind |-> "pair", name |-> name, value |-> v]

Text(cmd, params) == [cmd |-> cmd, params |-> params]
EmptyText == Text(<<>>, <<>>)

\* A text no production of the grammar derives (a lone double quote), and a
\* text standing for an input the grammar derives in two ways.
InvalidText == Text(<<"\"">>, <<>>)
AmbiguousText == Text(<<"~">>, <<>>)

RECURSIVE Concat(_)
\* the concatenation of a sequence of strings
Concat(ss) == IF ss = <<>> THEN <<>> ELSE Head(ss) \o Concat(Tail(ss))

\* the characters of a typed value, parameter and text, as they are typed
ValueChars(v) ==
    CASE v.q = "implicit" -> v.text
      [] v.q = "empty" -> <<"\"", "\"">>
      [] v.q = "explicit" ->
            <<"\"">>
            \o Concat([i \in 1..Len(v.items) |->
                        IF v.items[i].esc THEN <<"\\", v.items[i].c>>
                        ELSE <<v.items[i].c>>])
            \o <<"\"">>

ParamChars(p) ==
    CASE p.kind = "indexed" -> ValueChars(p.value)
      [] p.kind = "flag" -> <<"-", "-">> \o p.name
      [] p.kind = "pair" -> p.name \o <<":", " ">> \o ValueChars(p.value)

TextChars(text) ==
    text.cmd \o Concat([i \in 1..Len(text.params) |->
                          <<" ">> \o ParamChars(text.params[i])])

(***************************************************************************)
(* bnf::ParseTreeNode and the trees of the console grammar.                *)
(***************************************************************************)
Terminal(t) == [nt |-> FALSE, text |-> t]
Nonterminal(lhs, rhs) == [nt |-> TRUE, lhs |-> lhs, rhs |-> rhs]

\* a nonterminal deriving the characters of a token one by one
TokenTree(lhs, chars) ==
    Nonterminal(lhs, [i \in 1..Len(chars) |-> Terminal(<<chars[i]>>)])

WsTree(lhs) == Nonterminal(lhs, <<Terminal(<<" ">>)>>)

\* value := string_implicit | "\"\"" | "\"" string_explicit "\""
ValueTree(v) ==
    CASE v.q = "implicit" ->
            Nonterminal("<value>", <<TokenTree("<string_implicit>", v.text)>>)
      [] v.q = "empty" ->
            Nonterminal("<value>", <<Terminal(<<"\"", "\"">>)>>)
      [] v.q = "explicit" ->
            Nonterminal("<value>",
                <<Terminal(<<"\"">>),
                  Nonterminal("<string_explicit>",
                      [i \in 1..Len(v.items) |->
                          IF v.items[i].esc
                          THEN Nonterminal("<escape_char>",
                                   <<Terminal(<<"\\">>),
                                     Terminal(<<v.items[i].c>>)>>)
                          ELSE Terminal(<<v.items[i].c>>)]),
                  Terminal(<<"\"">>)>>)

\* command_param := name_value_pair | flag | indexed_value
CommandParamTree(p) ==
    Nonterminal("<command_param>",
        <<CASE p.kind = "pair" ->
                  Nonterminal("<name_value_pair>",
                      <<TokenTree("<token>", p.name), WsTree("<ws_star>"),
                        Terminal(<<":">>), WsTree("<ws_star>"),
                        ValueTree(p.value)>>)
            [] p.kind = "flag" ->
                  Nonterminal("<flag>",
                      <<Terminal(<<"-", "-">>), TokenTree("<token>", p.name)>>)
            [] p.kind = "indexed" ->
                  Nonterminal("<indexed_value>", <<ValueTree(p.value)>>)>>)

RECURSIVE CommandParametersTree(_)
\* command_parameters := command_parameters ws_plus command_param
\*                     | command_param
CommandParametersTree(params) ==
    IF Len(params) = 1
    THEN Nonterminal("<command_parameters>", <<CommandParamTree(params[1])>>)
    ELSE Nonterminal("<command_parameters>",
             <<CommandParametersTree(SubSeq(params, 1, Len(params) - 1)),
               WsTree("<ws_plus>"),
               CommandParamTree(params[Len(params)])>>)

\* command_line := command_name (ws_plus command_parameters)?
CommandLineTree(text) ==
    IF text.params = <<>>
    THEN Nonterminal("<command_line>",
             <<TokenTree("<command_name>", text.cmd)>>)
    ELSE Nonterminal("<command_line>",
             <<TokenTree("<command_name>", text.cmd), WsTree("<ws_plus>"),
               CommandParametersTree(text.params)>>)

\* Grammar::parse_input: every parse tree of the text, in order.  A text
\* without a command name, or the invalid text, has none; the ambiguous text
\* has two; every other typed line has exactly one.
parse_input(text) ==
    IF text.cmd = <<>> \/ text = InvalidText THEN <<>>
    ELSE IF text = AmbiguousText
         THEN <<CommandLineTree(text),
                Nonterminal("<command_line>",
                    <<Nonterminal("<command_name>",
                          <<TokenTree("<token>", text.cmd)>>)>>)>>
    ELSE <<CommandLineTree(text)>>

(***************************************************************************)
(* The parse-tree reducer.                                                 *)
(***************************************************************************)
\* the character an <escape_char> node decodes to: the escaped character
\* itself, whichever branch is taken
DecodeEscape(c) ==
    IF c = <<"\"">> THEN <<"\"">>
    ELSE IF c = <<"\r">> THEN <<"\r">>
    ELSE IF c = <<"\n">> THEN <<"\n">>
    ELSE IF c = <<"\t">> THEN <<"\t">>
    ELSE IF c = <<"\\">> THEN <<"\\">>
    ELSE c

\* whether the escaped character is one the reducer recognizes
RecognizedEscape(c) ==
    c \in {<<"\"">>, <<"\r">>, <<"\n">>, <<"\t">>, <<"\\">>}

RECURSIVE expand_parse_tree_node(_)
expand_parse_tree_node(node) ==
    IF node.nt
    THEN IF node.lhs = "<escape_char>"
         THEN DecodeEscape(expand_parse_tree_node(node.rhs[2]))
         ELSE Concat([i \in 1..Len(node.rhs) |->
                         expand_parse_tree_node(node.rhs[i])])
    ELSE node.text

expand_command_param_value(parse_tree) ==
    LET first == parse_tree.rhs[1]
    IN  IF first.nt THEN expand_parse_tree_node(first)
        ELSE IF first.text = <<"\"", "\"">> THEN <<>>
        ELSE expand_parse_tree_node(parse_tree.rhs[2])

expand_command_param_indexed_value(parse_tree) ==
    <<<<>>, expand_command_param_value(parse_tree.rhs[1])>>

expand_command_param_flag(parse_tree) ==
    <<expand_parse_tree_node(parse_tree.rhs[2]), StrTrue>>

expand_command_param_name_value_pair(parse_tree) ==
    <<expand_parse_tree_node(parse_tree.rhs[1]),
      expand_command_param_value(parse_tree.rhs[5])>>

expand_command_param(command_param) ==
    LET nt == command_param.rhs[1]
    IN  CASE nt.lhs = "<name_value_pair>" ->
                expand_command_param_name_value_pair(nt)
          [] nt.lhs = "<flag>" -> expand_command_param_flag(nt)
          [] nt.lhs = "<indexed_value>" ->
                expand_command_param_indexed_value(nt)

RECURSIVE expand_command_parameters(_)
expand_command_parameters(tree) ==
    LET first == tree.rhs[1]
    IN  IF first.lhs = "<command_param>"
        THEN <<expand_command_param(first)>>
        ELSE Append(expand_command_parameters(first),
                    expand_command_param(tree.rhs[3]))

RECURSIVE unrecognized_escapes(_)
\* the warnings of expand_parse_tree_node under a node, in order: one for
\* every escaped character that is not recognized
unrecognized_escapes(node) ==
    IF ~node.nt THEN <<>>
    ELSE IF node.lhs = "<escape_char>"
         THEN LET c == expand_parse_tree_node(node.rhs[2])
              IN  IF RecognizedEscape(c) THEN <<>>
                  ELSE <<[level |-> "warn", msg |-> "unrecognized escape sequence",
                          arg |-> c]>>
    ELSE Concat([i \in 1..Len(node.rhs) |-> unrecognized_escapes(node.rhs[i])])

(***************************************************************************)
(* Log records (error and warn severity; trace records are not kept).      *)
(***************************************************************************)
LogError(msg, arg) == [level |-> "error", msg |-> msg, arg |-> arg]

\* BTreeMap<String, _>: a function on the set of its keys
EmptyMap == [k \in {} |-> {}]
Insert(m, k, v) == [x \in (DOMAIN m) \cup {k} |-> IF x = k THEN v ELSE m[x]]
Remove(m, k) == [x \in (DOMAIN m) \ {k} |-> m[x]]

\* what parse_value_via_definition logs when it returns None
parse_failure_log(def) ==
    <<LogError("couldn't parse argument as a valid " \o def.cba_type, def.name)>>

(***************************************************************************)
(* The argument binder of DebugConsole::draw, loop by loop.                *)
(***************************************************************************)
\* collect_args without the duplicate check: a later value of a name
\* replaces the earlier one
collect_args_overwrite(args, named_args, indexed_vals) ==
    LET named == {i \in 1..Len(args) : args[i][1] /= <<>>}
        last(k) == CHOOSE i \in named :
                      /\ args[i][1] = k
                      /\ \A j \in named : args[j][1] = k => j <= i
        positional == SelectSeq(args, LAMBDA arg : arg[1] = <<>>)
    IN  [error |-> FALSE,
         named_args |->
             [k \in (DOMAIN named_args) \cup {args[i][1] : i \in named} |->
                 IF \E i \in named : args[i][1] = k THEN args[last(k)][2]
                 ELSE named_args[k]],
         indexed_vals |->
             indexed_vals \o [i \in 1..Len(positional) |-> positional[i][2]],
         log |-> <<>>]

\* collect_args taking every parameter by its position, whatever its name
collect_args_positional(args, named_args, indexed_vals) ==
    [error |-> FALSE,
     named_args |-> named_args,
     indexed_vals |-> indexed_vals \o [i \in 1..Len(args) |-> args[i][2]],
     log |-> <<>>]

RECURSIVE collect_args(_, _, _)
\* collect named args, indexed args, and flags
collect_args(args, named_args, indexed_vals) ==
    IF args = <<>>
    THEN [error |-> FALSE, named_args |-> named_args,
          indexed_vals |-> indexed_vals, log |-> <<>>]
    ELSE LET arg == Head(args)
         IN  IF arg[1] = <<>>
             THEN collect_args(Tail(args), named_args,
                               Append(indexed_vals, arg[2]))
             ELSE IF arg[1] \in DOMAIN named_args
                  THEN [error |-> TRUE,
                        named_args |-> Insert(named_args, arg[1], arg[2]),
                        indexed_vals |-> indexed_vals,
                        log |-> <<LogError("duplicate command parameter",
                                           arg[1])>>]
             ELSE collect_args(Tail(args),
                               Insert(named_args, arg[1], arg[2]),
                               indexed_vals)

RECURSIVE construct_final_keep_rest(_, _, _, _, _)
\* the loop handing the named values no definition took on to the callback,
\* as strings
construct_final_keep_rest(defs, named_args, complete_args, missed_mandatory, missed_optional) ==
    IF defs = <<>>
    THEN [error |-> FALSE,
          complete_args |->
              [k \in DOMAIN complete_args \cup DOMAIN named_args |->
                  IF k \in DOMAIN named_args
                  THEN Value("String", named_args[k])
                  ELSE complete_args[k]],
          missed_mandatory |-> missed_mandatory,
          missed_optional |-> missed_optional, log |-> <<>>]
    ELSE LET def == Head(defs)
         IN  IF def.name \in DOMAIN named_args
             THEN LET arg_value ==
                          parse_value_via_definition(named_args[def.name], def)
                  IN  IF arg_value.some
                      THEN construct_final_keep_rest(Tail(defs),
                               Remove(named_args, def.name),
                               Insert(complete_args, def.name, arg_value.val),
                               missed_mandatory, missed_optional)
                      ELSE [error |-> TRUE, complete_args |-> complete_args,
                            missed_mandatory |-> missed_mandatory,
                            missed_optional |-> missed_optional,
                            log |-> parse_failure_log(def)]
             ELSE IF def.cba_type = "Flag"
                  THEN construct_final_keep_rest(Tail(defs), named_args,
                           Insert(complete_args, def.name,
                                  Value("Flag", FALSE)),
                           missed_mandatory, missed_optional)
             ELSE IF def.optional
                  THEN construct_final_keep_rest(Tail(defs), named_args, complete_args,
                           missed_mandatory, Append(missed_optional, def))
             ELSE construct_final_keep_rest(Tail(defs), named_args, complete_args,
                      Append(missed_mandatory, def), missed_optional)

RECURSIVE construct_final(_, _, _, _, _)
\* construct final parameters: the loop over the command's definitions
construct_final(defs, named_args, complete_args, missed_mandatory, missed_optional) ==
    IF defs = <<>>
    THEN [error |-> FALSE, complete_args |-> complete_args,
          missed_mandatory |-> missed_mandatory,
          missed_optional |-> missed_optional, log |-> <<>>]
    ELSE LET def == Head(defs)
         IN  IF def.name \in DOMAIN named_args
             THEN LET arg_value ==
                          parse_value_via_definition(named_args[def.name], def)
                  IN  IF arg_value.some
                      THEN construct_final(Tail(defs),
                               Remove(named_args, def.name),
                               Insert(complete_args, def.name, arg_value.val),
                               missed_mandatory, missed_optional)
                      ELSE [error |-> TRUE, complete_args |-> complete_args,
                            missed_mandatory |-> missed_mandatory,
                            missed_optional |-> missed_optional,
                            log |-> parse_failure_log(def)]
             ELSE IF def.cba_type = "Flag"
                  THEN construct_final(Tail(defs), named_args,
                           Insert(complete_args, def.name,
                                  Value("Flag", FALSE)),
                           missed_mandatory, missed_optional)
             ELSE IF def.optional
                  THEN construct_final(Tail(defs), named_args, complete_args,
                           missed_mandatory, Append(missed_optional, def))
             ELSE construct_final(Tail(defs), named_args, complete_args,
                      Append(missed_mandatory, def), missed_optional)

RECURSIVE match_indexed_loop_skip(_, _, _, _)
\* the loop leaving out a value that does not parse, and going on
match_indexed_loop_skip(n, indexed_vals, missed_defs, complete_args) ==
    IF n = 0
    THEN [error |-> FALSE, panic |-> FALSE, complete_args |-> complete_args,
          log |-> <<>>]
    ELSE IF missed_defs = <<>>
         THEN [error |-> FALSE, panic |-> TRUE,
               complete_args |-> complete_args, log |-> <<>>]
    ELSE LET indexed_val == Head(indexed_vals)
             missed_def == Head(missed_defs)
             arg_value == parse_value_via_definition(indexed_val, missed_def)
         IN  match_indexed_loop_skip(n - 1, Tail(indexed_vals),
                 Tail(missed_defs),
                 IF arg_value.some
                 THEN Insert(complete_args, missed_def.name, arg_value.val)
                 ELSE complete_args)

RECURSIVE match_indexed_loop(_, _, _, _)
\* for _ in 0..indexed_len: pop a value and a definition, parse, insert.
\* pop_front().unwrap() on the emptied missed_defs panics.
match_indexed_loop(n, indexed_vals, missed_defs, complete_args) ==
    IF n = 0
    THEN [error |-> FALSE, panic |-> FALSE, complete_args |-> complete_args,
          log |-> <<>>]
    ELSE IF missed_defs = <<>>
         THEN [error |-> FALSE, panic |-> TRUE,
               complete_args |-> complete_args, log |-> <<>>]
    ELSE LET indexed_val == Head(indexed_vals)
             missed_def == Head(missed_defs)
             arg_value == parse_value_via_definition(indexed_val, missed_def)
         IN  IF arg_value.some
             THEN match_indexed_loop(n - 1, Tail(indexed_vals),
                      Tail(missed_defs),
                      Insert(complete_args, missed_def.name, arg_value.val))
             ELSE [error |-> TRUE, panic |-> FALSE,
                   complete_args |-> complete_args,
                   log |-> parse_failure_log(missed_def)
                           \o <<LogError("couldn't parse argument with definition",
                                         missed_def.name)>>]

\* match_indexed accepting one positional value too few
match_indexed_lenient(indexed_vals, missed_mandatory, missed_optional, complete_args) ==
    LET mandatory_len == Len(missed_mandatory)
        missed_defs == missed_mandatory \o missed_optional
        total_len == Len(missed_defs)
        indexed_len == Len(indexed_vals)
    IN  IF indexed_len + 1 >= mandatory_len
        THEN match_indexed_loop(indexed_len, indexed_vals, missed_defs,
                                complete_args)
        ELSE [error |-> TRUE, panic |-> FALSE,
              complete_args |-> complete_args,
              log |-> IF indexed_len > total_len
                      THEN <<LogError("too many arguments", <<>>)>>
                      ELSE <<LogError("too few arguments", <<>>)>>]

\* match_indexed filling the optional slots before the mandatory ones
match_indexed_optional_first(indexed_vals, missed_mandatory, missed_optional, complete_args) ==
    LET mandatory_len == Len(missed_mandatory)
        missed_defs == missed_optional \o missed_mandatory
        total_len == Len(missed_defs)
        indexed_len == Len(indexed_vals)
    IN  IF indexed_len >= mandatory_len
        THEN match_indexed_loop(indexed_len, indexed_vals, missed_defs,
                                complete_args)
        ELSE [error |-> TRUE, panic |-> FALSE,
              complete_args |-> complete_args,
              log |-> IF indexed_len > total_len
                      THEN <<LogError("too many arguments", <<>>)>>
                      ELSE <<LogError("too few arguments", <<>>)>>]

\* match up any indexed_args
match_indexed(indexed_vals, missed_mandatory, missed_optional, complete_args) ==
    LET mandatory_len == Len(missed_mandatory)
        missed_defs == missed_mandatory \o missed_optional
        total_len == Len(missed_defs)
        indexed_len == Len(indexed_vals)
    IN  IF indexed_len >= mandatory_len
        THEN match_indexed_loop(indexed_len, indexed_vals, missed_defs,
                                complete_args)
        ELSE [error |-> TRUE, panic |-> FALSE,
              complete_args |-> complete_args,
              log |-> IF indexed_len > total_len
                      THEN <<LogError("too many arguments", <<>>)>>
                      ELSE <<LogError("too few arguments", <<>>)>>]

\* The binding of a line with parameters to a found command: the three
\* loops in turn, each skipped once `error` is set.
bind_arguments(args, defs) ==
    With(collect_args(args, EmptyMap, <<>>), LAMBDA c :
    With(IF c.error
         THEN [error |-> TRUE, complete_args |-> EmptyMap,
               missed_mandatory |-> <<>>, missed_optional |-> <<>>,
               log |-> <<>>]
         ELSE construct_final(defs, c.named_args, EmptyMap, <<>>, <<>>),
         LAMBDA f :
    With(IF f.error
         THEN [error |-> TRUE, panic |-> FALSE,
               complete_args |-> f.complete_args, log |-> <<>>]
         ELSE match_indexed(c.indexed_vals, f.missed_mandatory,
                            f.missed_optional, f.complete_args),
         LAMBDA m :
    [error |-> m.error, panic |-> m.panic,
     complete_args |-> m.complete_args,
     log |-> c.log \o f.log \o m.log])))

(***************************************************************************)
(* Key order of BTreeMap<String, _>: lexicographic on the characters.      *)
(***************************************************************************)
AsciiOrder ==
    <<"\t", "\n", "\r", " ", "\"", "+", "-", ".",
      "0", "1", "2", "3", "4", "5", "6", "7", "8", "9", ":", "\\", "_",
      "a", "b", "c", "d", "e", "f", "g", "h", "i", "j", "k", "l", "m",
      "n", "o", "p", "q", "r", "s", "t", "u", "v", "w", "x", "y", "z", "~">>

Code(c) == CHOOSE i \in 1..Len(AsciiOrder) : AsciiOrder[i] = c

\* s < t for strings: decided at the first position where they differ
StrLess(s, t) ==
    LET n == IF Len(s) < Len(t) THEN Len(s) ELSE Len(t)
        differ == {i \in 1..n : s[i] /= t[i]}
    IN  IF differ = {} THEN Len(s) < Len(t)
        ELSE LET d == CHOOSE i \in differ : \A j \in differ : i <= j
             IN  Code(s[d]) < Code(t[d])

\* The Command Registry, a BTreeMap<String, ConsoleCommand>, is the sequence
\* of its entries in ascending key order, the order BTreeMap::iter visits.
Entry(name, cmd) == [name |-> name, cmd |-> cmd]

\* BTreeMap::contains_key, BTreeMap::get_mut
contains_key(commands, name) == \E i \in 1..Len(commands) : commands[i].name = name
get_mut(commands, name) ==
    commands[CHOOSE i \in 1..Len(commands) : commands[i].name = name].cmd

\* the keys, ascending
Keys(commands) == [i \in 1..Len(commands) |-> commands[i].name]

\* BTreeMap::insert: the entry replaces one of the same key, or goes to its
\* place in the order
insert(commands, name, cmd) ==
    LET before == SelectSeq(commands, LAMBDA e : StrLess(e.name, name))
        after == SelectSeq(commands, LAMBDA e : StrLess(name, e.name))
    IN  before \o <<Entry(name, cmd)>> \o after

(***************************************************************************)
(* ConsoleCommand and the callbacks console_command! generates.            *)
(***************************************************************************)
\* A ConsoleCommand: its definitions, its description, and `inner', the
\* closure the generated callback wraps.
ConsoleCommand(args, description, inner) ==
    [args |-> args, description |-> description, inner |-> inner]

Ok == [ok |-> TRUE, err |-> <<>>]
Err(msg, arg) == [ok |-> FALSE, err |-> <<msg, arg>>]

RECURSIVE macro_extract(_, _)
\* The generated prologue: every declared field is taken from the mapping by
\* name; a value of another variant, or a missing field not marked `opt',
\* returns Err before the inner closure runs.
macro_extract(fields, args) ==
    IF fields = <<>> THEN Ok
    ELSE LET f == Head(fields)
         IN  IF f.name \in DOMAIN args
             THEN IF args[f.name].variant = f.cba_type
                  THEN macro_extract(Tail(fields), args)
                  ELSE Err("was not a valid " \o f.cba_type, f.name)
             ELSE IF f.optional THEN macro_extract(Tail(fields), args)
             ELSE Err("missing variable", f.name)

\* The inner closures of the registered commands: the result, and what the
\* closure writes (the debug-trace flag, the application's exit flag).
inner_result(inner, args) ==
    CASE inner = "debug" ->
            [result |-> Ok, set_debug |-> Some(args[<<"v", "a", "l", "u", "e">>].payload),
             quit |-> FALSE]
      [] inner = "quit" -> [result |-> Ok, set_debug |-> None, quit |-> TRUE]
      [] inner = "refuse" ->
            [result |-> IF args[<<"c">>].payload
                        THEN Err("refused", <<"c">>) ELSE Ok,
             set_debug |-> None, quit |-> FALSE]
      [] OTHER -> [result |-> Ok, set_debug |-> None, quit |-> FALSE]

\* (cmd.cb)(interface, complete_args): the call record, the error logged for
\* an Err result, and the writes of the inner closure when it ran.
invoke_callback(command, cmd, complete_args) ==
    With(macro_extract(cmd.args, complete_args), LAMBDA pre :
    With(IF pre.ok THEN inner_result(cmd.inner, complete_args)
         ELSE [result |-> pre, set_debug |-> None, quit |-> FALSE],
         LAMBDA run :
    [calls |-> <<[cmd |-> command, args |-> complete_args,
                  inner |-> pre.ok]>>,
     log |-> IF run.result.ok THEN <<>>
             ELSE <<LogError("command error", run.result.err)>>,
     set_debug |-> run.set_debug, quit |-> run.quit, panic |-> FALSE]))

NoCall(log, panic) ==
    [calls |-> <<>>, log |-> log, set_debug |-> None, quit |-> FALSE,
     panic |-> panic]

(***************************************************************************)
(* handle sending command: everything Enter does before the reset.         *)
(***************************************************************************)
\* parse_tree selection: the last tree when there is exactly one
select_parse_tree(parse_trees) ==
    LET pt_count == Len(parse_trees)
    IN  IF pt_count /= 1
        THEN [val |-> None,
              log |-> <<LogError("ambigious command, multiple valid parse trees",
                                 <<>>)>>]
        ELSE [val |-> Some(parse_trees[pt_count]), log |-> <<>>]

\* the branch for a line with arguments
dispatch_with_args(command, args_node, commands) ==
    With(expand_command_parameters(args_node), LAMBDA args :
    With(unrecognized_escapes(args_node), LAMBDA warns :
    IF contains_key(commands, command)
    THEN With(get_mut(commands, command), LAMBDA cmd :
         With(bind_arguments(args, cmd.args), LAMBDA b :
         IF b.panic THEN NoCall(warns \o b.log, TRUE)
         ELSE IF b.error THEN NoCall(warns \o b.log, FALSE)
         ELSE With(invoke_callback(command, cmd, b.complete_args), LAMBDA r :
              [r EXCEPT !.log = warns \o b.log \o r.log])))
    ELSE NoCall(warns \o <<LogError("command not found", command)>>, FALSE)))

\* the branch for a bare command name, saying nothing of a name not found
dispatch_no_args_silent(command, commands) ==
    IF contains_key(commands, command)
    THEN invoke_callback(command, get_mut(commands, command), EmptyMap)
    ELSE NoCall(<<>>, FALSE)

\* the branch for a bare command name, looking the name up as a prefix of the
\* registered names
dispatch_no_args_prefix(command, commands) ==
    LET hits == {i \in 1..Len(commands) : starts_with(commands[i].name, command)}
    IN  IF hits /= {}
        THEN LET first == CHOOSE i \in hits : \A j \in hits : i <= j
             IN  invoke_callback(commands[first].name, commands[first].cmd,
                                 EmptyMap)
        ELSE NoCall(<<LogError("command not found", command)>>, FALSE)

\* the branch for a bare command name
dispatch_no_args(command, commands) ==
    IF contains_key(commands, command)
    THEN invoke_callback(command, get_mut(commands, command), EmptyMap)
    ELSE NoCall(<<LogError("command not found", command)>>, FALSE)

dispatch(text, commands) ==
    With(select_parse_tree(parse_input(text)), LAMBDA sel :
    IF sel.val.some
    THEN With(sel.val.val, LAMBDA pt :
         With(expand_parse_tree_node(pt.rhs[1]), LAMBDA command :
         With(IF Len(pt.rhs) > 1
              THEN dispatch_with_args(command, pt.rhs[3], commands)
              ELSE dispatch_no_args(command, commands),
              LAMBDA r : [r EXCEPT !.log = sel.log \o r.log])))
    ELSE NoCall(sel.log \o <<LogError("invalid console command",
                                      TextChars(text))>>, FALSE))

(***************************************************************************)
(* The registered commands.                                                *)
(***************************************************************************)
NameQuit == <<"q", "u", "i", "t">>
NameDebug == <<"k", "9", "_", "d", "e", "b", "u", "g", "_", "c", "o", "n",
               "s", "o", "l", "e", "_", "c", "o", "m", "m", "a", "n", "d">>
NameTwo == <<"t", "w", "o">>
NameTri == <<"t", "r", "i">>
NameTog == <<"t", "o", "g">>
\* a name no command is registered under
NameNop == <<"n", "o", "p">>

\* run(): the table handed to the console.  `quit' is the application's;
\* the others stand for commands the user systems register in first_call:
\* two mandatory parameters; a mandatory, an optional and a mandatory one;
\* and a single flag, whose closure refuses the set flag.
CollaboratorCommands ==
    insert(insert(insert(insert(<<>>,
        NameQuit, ConsoleCommand(<<>>, "exits the application.", "quit")),
        NameTwo, ConsoleCommand(<<Def(<<"a">>, "Int32", FALSE),
                                  Def(<<"b">>, "Int32", FALSE)>>,
                                "two", "accept")),
        NameTri, ConsoleCommand(<<Def(<<"a">>, "Int32", FALSE),
                                  Def(<<"b">>, "Int32", TRUE),
                                  Def(<<"c">>, "String", FALSE)>>,
                                "tri", "accept")),
        NameTog, ConsoleCommand(<<Def(<<"c">>, "Flag", FALSE)>>,
                                "tog", "refuse"))

cc_debug_console_command ==
    ConsoleCommand(<<Def(<<"v", "a", "l", "u", "e">>, "Bool", FALSE)>>,
        "displays debug information about the parsing run for a console command.",
        "debug")

\* DebugConsole::new: entry(name).and_modify(warn).or_insert(built-in)
register_debug_command(commands) ==
    IF contains_key(commands, NameDebug)
    THEN [commands |-> commands,
          log |-> <<[level |-> "warn",
                     msg |-> "console command 'k9_debug_console_command' was overwritten.",
                     arg |-> <<>>]>>]
    ELSE [commands |-> insert(commands, NameDebug, cc_debug_console_command),
          log |-> <<>>]

(***************************************************************************)
(* autocomplete logic, run when the text edit reports a change.            *)
(***************************************************************************)
\* position of a name in a list, 0-based, as Some, or None
IndexOf(list, name) ==
    IF \E i \in 1..Len(list) : list[i] = name
    THEN Some((CHOOSE i \in 1..Len(list) : list[i] = name) - 1)
    ELSE None


\* the autocomplete logic without the previous selection: the first
\* candidate is selected after every edit
autocomplete_logic_first(text_chars, commands, prev_selected) ==
    IF text_chars = <<>>
    THEN [preview |-> <<>>, selected |-> None]
    ELSE LET Matches(name) == starts_with(name, text_chars)
             preview == SelectSeq(Keys(commands), Matches)
         IN  [preview |-> preview,
              selected |->
                  IF preview /= <<>> THEN Some(<<preview[1], 0>>)
                  ELSE None]

autocomplete_logic(text_chars, commands, prev_selected) ==
    IF text_chars = <<>>
    THEN [preview |-> <<>>, selected |-> None]
    ELSE LET Matches(name) == starts_with(name, text_chars)
             preview == SelectSeq(Keys(commands), Matches)
             prev_index == IF prev_selected.some
                           THEN IndexOf(preview, prev_selected.val[1])
                           ELSE None
         IN  [preview |-> preview,
              selected |->
                  IF prev_index.some
                  THEN Some(<<preview[prev_index.val + 1], prev_index.val>>)
                  ELSE IF preview /= <<>> THEN Some(<<preview[1], 0>>)
                  ELSE None]

(***************************************************************************)
(* The state of the console.                                               *)
(***************************************************************************)
VARIABLES
    console_text,               \* the text of the input field
    console_commands,           \* the Command Registry
    debug_windows,              \* id -> is_open
    debug_console_commands,     \* the debug-trace flag
    is_finished,                \* the application's exit flag
    selected_autocomplete_cmd,  \* Option<(name, index)>
    preview_autocomplete_cmds,  \* the candidate list
    draw_preview_commands_list, \* show the full candidate list
    set_console_focus,          \* focus is requested for the input field
    console_has_focus,          \* the input field had focus at the frame's end
    cursor_at_end,              \* last_cursor_idx = console_text.len()
    log,                        \* the records the last event logged
    calls,                      \* the callback invocations of the last event
    panicked,                   \* a panic unwound the frame thread
    submitted,                  \* the text the last event dispatched, if any
    constructed,                \* DebugConsole::new has run
    interface_call,             \* the last call on the interface handle
    parse_call,                 \* the last call of the value parser on its own
    render_call,                \* the last rendering of the candidate list
    reduce_call,                \* the last parameter subtree reduced on its own
    value_typed,                \* a typed value handed to the reducer
    value_reduced,              \* what the reducer made of it, if it ran
    texture_store,              \* GraphicsSystem::texture_store
    render_commands,            \* the texture render commands pushed so far
    texture_ids,                \* the file path of every id create_texture_rgb8 gave out
    deleted_ids                 \* the ids delete_texture was called on

vars ==
    <<console_text, console_commands, debug_windows, debug_console_commands,
      is_finished, selected_autocomplete_cmd, preview_autocomplete_cmds,
      draw_preview_commands_list, set_console_focus, console_has_focus,
      cursor_at_end, log, calls, panicked, submitted, constructed,
      interface_call, parse_call, render_call, reduce_call, value_typed,
      value_reduced, texture_store, render_commands, texture_ids,
      deleted_ids>>

\* the variables of the console, and those of the reducer run on its own
console_vars ==
    <<console_text, console_commands, debug_windows, debug_console_commands,
      is_finished, selected_autocomplete_cmd, preview_autocomplete_cmds,
      draw_preview_commands_list, set_console_focus, console_has_focus,
      cursor_at_end, log, calls, panicked, submitted, constructed,
      interface_call, parse_call, render_call, reduce_call>>
reducer_vars == <<value_typed, value_reduced>>
graphics_vars ==
    <<texture_store, render_commands, texture_ids, deleted_ids>>
handle_vars ==
    <<constructed, interface_call, parse_call, render_call, reduce_call>>

\* the process is running: no panic, and the main loop has not seen the
\* exit flag
Running == ~panicked /\ ~is_finished

(***************************************************************************)
(* What is typed.                                                          *)
(***************************************************************************)
\* the command names typed in full: the registered ones and an unknown one
FullNames == {NameQuit, NameTwo, NameTri, NameTog, NameDebug, NameNop}

\* texts typed without parameters: the full names, some prefixes, the empty
\* text, and the texts the grammar rejects or derives twice
CommandTexts ==
    FullNames
    \cup {<<"q">>, <<"q", "u">>, <<"q", "u", "i">>, <<"t">>, <<"t", "r">>}
    \cup {EmptyText.cmd, InvalidText.cmd, AmbiguousText.cmd}

\* the parameters typed
TypedParams ==
    {Indexed(Implicit(<<"1">>)), Indexed(Implicit(<<"x">>)),
     Pair(<<"a">>, Implicit(<<"1">>)), Pair(<<"a">>, Implicit(<<"x">>)),
     Pair(<<"b">>, Implicit(<<"1">>)), Pair(<<"c">>, Implicit(<<"x">>)),
     FlagParam(<<"c">>)}

(***************************************************************************)
(* The texture store of the graphics system: get_render_commands on the    *)
(* CreateTextureRGB8 and DeleteTexture commands.  An id is a number, a     *)
(* store map a function on its keys.                                       *)
(***************************************************************************)
\* TextureStore::new
TextureStore_new ==
    [ref_counts |-> EmptyMap, ref_real_map |-> EmptyMap,
     path_real_map |-> EmptyMap]

RenderCreateTextureRGB8(id) == [cmd |-> "CreateTextureRGB8", id |-> id]
RenderDeleteTexture(id) == [cmd |-> "DeleteTexture", id |-> id]

\* the arm of CreateTextureRGB8 { id, filepath }, image::open succeeding: the
\* store after it and the render commands pushed
on_CreateTextureRGB8(store, id, filepath) ==
    IF filepath \in DOMAIN store.path_real_map
    THEN LET real_id == store.path_real_map[filepath]
             aliased == [store EXCEPT !.ref_real_map =
                                          Insert(@, id, real_id)]
         IN  IF real_id \in DOMAIN store.ref_counts
             THEN [store |-> [aliased EXCEPT !.ref_counts[real_id] = @ + 1],
                   rval |-> <<>>]
             ELSE \* "texture store corrupted on create rgb8"; continue
                  [store |-> aliased, rval |-> <<>>]
    ELSE [store |-> [ref_counts |-> Insert(store.ref_counts, id, 1),
                     ref_real_map |-> Insert(store.ref_real_map, id, id),
                     path_real_map |->
                         Insert(store.path_real_map, filepath, id)],
          rval |-> <<RenderCreateTextureRGB8(id)>>]

\* the arm of DeleteTexture { id } that leaves the path of a deleted texture
\* in path_real_map
on_DeleteTexture_keep_path(store, id) ==
    IF id \in DOMAIN store.ref_real_map
    THEN LET real_id == store.ref_real_map[id]
             removed == [store EXCEPT !.ref_real_map = Remove(@, id)]
         IN  IF real_id \in DOMAIN store.ref_counts
             THEN LET ref_count == store.ref_counts[real_id] - 1
                  IN  IF ref_count = 0
                      THEN [store |->
                                [removed EXCEPT
                                    !.ref_counts = Remove(@, real_id)],
                            rval |-> <<RenderDeleteTexture(real_id)>>]
                      ELSE [store |-> [removed EXCEPT
                                          !.ref_counts[real_id] = ref_count],
                            rval |-> <<>>]
             ELSE [store |-> removed, rval |-> <<>>]
    ELSE [store |-> store, rval |-> <<>>]

\* the arm of DeleteTexture { id }: drain_filter takes the entries of the
\* other real ids out of path_real_map, and they are collected into the new
\* map
on_DeleteTexture(store, id) ==
    IF id \in DOMAIN store.ref_real_map
    THEN LET real_id == store.ref_real_map[id]
             removed == [store EXCEPT !.ref_real_map = Remove(@, id)]
         IN  IF real_id \in DOMAIN store.ref_counts
             THEN LET ref_count == store.ref_counts[real_id] - 1
                  IN  IF ref_count = 0
                      THEN [store |->
                                [removed EXCEPT
                                    !.ref_counts = Remove(@, real_id),
                                    !.path_real_map =
                                        [p \in {q \in DOMAIN @ :
                                                   @[q] /= real_id} |-> @[p]]],
                            rval |-> <<RenderDeleteTexture(real_id)>>]
                      ELSE [store |-> [removed EXCEPT
                                          !.ref_counts[real_id] = ref_count],
                            rval |-> <<>>]
             ELSE \* "texture store corrupted on delete, get ref_count"
                  [store |-> removed, rval |-> <<>>]
    ELSE [store |-> store, rval |-> <<>>]

\* GraphicsSystem::new, no texture command issued yet
GraphicsInit ==
    /\ texture_store = TextureStore_new
    /\ render_commands = <<>>
    /\ texture_ids = <<>>
    /\ deleted_ids = {}

(***************************************************************************)
(* Initial state and actions.                                              *)
(***************************************************************************)
\* the fields DebugConsole::new sets whatever it is handed
FieldsInit ==
    /\ console_text = EmptyText
    /\ debug_console_commands = FALSE
    /\ is_finished = FALSE
    /\ selected_autocomplete_cmd = None
    /\ preview_autocomplete_cmds = <<>>
    /\ draw_preview_commands_list = FALSE
    /\ set_console_focus = FALSE
    /\ console_has_focus = FALSE
    /\ cursor_at_end = TRUE
    /\ calls = <<>>
    /\ panicked = FALSE
    /\ submitted = None
    /\ interface_call = None
    /\ parse_call = None
    /\ render_call = None
    /\ reduce_call = None

\* the console constructed from the table and the window of the
\* collaborators
ConsoleInit ==
    /\ FieldsInit
    /\ console_commands = register_debug_command(CollaboratorCommands).commands
    /\ debug_windows = [id \in {<<"w">>} |-> FALSE]
    /\ log = register_debug_command(CollaboratorCommands).log
    /\ constructed = TRUE

Init ==
    /\ ConsoleInit
    /\ value_typed = EmptyQuoted
    /\ value_reduced = None
    /\ GraphicsInit

\* draw preview command list: the flag is dropped when there is no candidate
render_preview(draw, preview) == draw /\ preview /= <<>>

\* a frame logs and invokes nothing unless it dispatches a line
no_dispatch ==
    /\ log' = <<>>
    /\ calls' = <<>>
    /\ submitted' = None

\* a frame in which the focused field's text is edited, the cursor ending
\* behind the last character: te_resp.changed(), then the autocomplete logic
text_changed(text) ==
    \E a \in {autocomplete_logic(TextChars(text), console_commands,
                                  selected_autocomplete_cmd)} :
        /\ console_text' = text
        /\ cursor_at_end' = TRUE
        /\ set_console_focus' = FALSE
        /\ draw_preview_commands_list' =
               render_preview(draw_preview_commands_list,
                              preview_autocomplete_cmds)
        /\ preview_autocomplete_cmds' = a.preview
        /\ selected_autocomplete_cmd' = a.selected
        /\ console_has_focus' = TRUE
        /\ no_dispatch
        /\ UNCHANGED <<console_commands, debug_windows,
                       debug_console_commands, is_finished, panicked>>
        /\ UNCHANGED <<reducer_vars, handle_vars, graphics_vars>>

\* the command part is typed, pasted or deleted, while no parameter follows
EditCommandName ==
    /\ Running
    /\ console_has_focus
    /\ console_text.params = <<>>
    /\ \E t \in CommandTexts :
          /\ Text(t, <<>>) /= console_text
          /\ text_changed(Text(t, <<>>))

\* the number of parameters the command of a name defines (none when the
\* name is not registered)
DefCount(name) ==
    IF contains_key(CollaboratorCommands, name) \/ name = NameDebug
    THEN Len(get_mut(register_debug_command(CollaboratorCommands).commands,
                     name).args)
    ELSE 0

\* one more parameter is typed after a command name
TypeParam ==
    /\ Running
    /\ console_has_focus
    /\ console_text.cmd \in FullNames
    /\ Len(console_text.params) < DefCount(console_text.cmd) + MaxExtra
    /\ \E p \in TypedParams :
          text_changed(Text(console_text.cmd, Append(console_text.params, p)))

\* last_cursor_idx is kept while the text is cleared: whether it is the
\* length of the emptied text
stale_cursor ==
    IF console_text = EmptyText THEN {cursor_at_end}
    ELSE IF cursor_at_end THEN {FALSE}
    ELSE BOOLEAN

\* Enter in the focused field, which gives up the focus: the line is
\* dispatched and the console is reset; a panic ends the process where it
\* stands
Submit ==
    /\ Running
    /\ console_has_focus
    /\ \E r \in {dispatch(console_text, console_commands)} :
           /\ log' = r.log
           /\ calls' = r.calls
           /\ panicked' = r.panic
           /\ submitted' = Some(console_text)
           /\ UNCHANGED <<console_commands, debug_windows>>
           /\ UNCHANGED <<reducer_vars, handle_vars, graphics_vars>>
           /\ IF r.panic
              THEN /\ set_console_focus' = FALSE
                   /\ draw_preview_commands_list' =
                          render_preview(draw_preview_commands_list,
                                         preview_autocomplete_cmds)
                   /\ UNCHANGED <<console_text, debug_console_commands,
                                  is_finished, selected_autocomplete_cmd,
                                  preview_autocomplete_cmds,
                                  console_has_focus, cursor_at_end>>
              ELSE /\ console_has_focus' = FALSE
                   /\ cursor_at_end' \in stale_cursor
                   /\ debug_console_commands' =
                         IF r.set_debug.some THEN r.set_debug.val
                         ELSE debug_console_commands
                   /\ is_finished' = (is_finished \/ r.quit)
                   /\ console_text' = EmptyText
                   /\ set_console_focus' = TRUE
                   /\ selected_autocomplete_cmd' = None
                   /\ preview_autocomplete_cmds' = <<>>
                   /\ draw_preview_commands_list' = FALSE

(***************************************************************************)
(* The frames without an edit, and the keys the console handles itself.   *)
(***************************************************************************)
\* the rest of a frame in which the text edit reports no change and no line
\* is dispatched: a pending focus request is served and the preview flag is
\* rendered
key_frame(text, selected, preview, draw, at_end, has_focus) ==
    /\ console_text' = text
    /\ selected_autocomplete_cmd' = selected
    /\ preview_autocomplete_cmds' = preview
    /\ draw_preview_commands_list' = render_preview(draw, preview)
    /\ cursor_at_end' \in at_end
    /\ set_console_focus' = FALSE
    /\ console_has_focus' = (set_console_focus \/ has_focus)
    /\ no_dispatch
    /\ UNCHANGED <<console_commands, debug_windows, debug_console_commands,
                   is_finished>>
    /\ UNCHANGED <<reducer_vars, handle_vars, graphics_vars>>

\* a frame without input
Frame ==
    /\ Running
    /\ UNCHANGED panicked
    /\ key_frame(console_text, selected_autocomplete_cmd,
                 preview_autocomplete_cmds, draw_preview_commands_list,
                 {cursor_at_end
                  \/ (console_has_focus /\ console_text = EmptyText)},
                 console_has_focus)

\* a click into the input field gives it the focus and sets the cursor
ClickField ==
    /\ Running
    /\ ~console_has_focus
    /\ UNCHANGED panicked
    /\ key_frame(console_text, selected_autocomplete_cmd,
                 preview_autocomplete_cmds, draw_preview_commands_list,
                 IF console_text = EmptyText THEN {TRUE} ELSE BOOLEAN,
                 TRUE)

Next == EditCommandName \/ TypeParam \/ Submit \/ Frame \/ ClickField

Spec == Init /\ [][Next]_vars

\* ArrowRight that accepts the selection wherever the cursor is
ArrowRight_anywhere ==
    /\ Running
    /\ UNCHANGED panicked
    /\ IF selected_autocomplete_cmd.some
       THEN \E cmd_text \in {selected_autocomplete_cmd.val[1]} :
               key_frame(Text(cmd_text, <<>>), selected_autocomplete_cmd,
                         <<>>, FALSE,
                         IF console_has_focus THEN {TRUE}
                         ELSE {Len(TextChars(console_text)) = Len(cmd_text)},
                         console_has_focus)
       ELSE key_frame(console_text, selected_autocomplete_cmd,
                      preview_autocomplete_cmds, draw_preview_commands_list,
                      IF console_has_focus /\ ~cursor_at_end THEN BOOLEAN
                      ELSE {cursor_at_end},
                      console_has_focus)

\* ArrowRight autocomplete: with a selection and the cursor at the end, the
\* selected name becomes the text; the selection itself is left as it is
ArrowRight ==
    /\ Running
    /\ UNCHANGED panicked
    /\ IF selected_autocomplete_cmd.some /\ cursor_at_end
       THEN \E cmd_text \in {selected_autocomplete_cmd.val[1]} :
               key_frame(Text(cmd_text, <<>>), selected_autocomplete_cmd,
                         <<>>, FALSE,
                         IF console_has_focus THEN {TRUE}
                         ELSE {Len(TextChars(console_text)) = Len(cmd_text)},
                         console_has_focus)
       ELSE key_frame(console_text, selected_autocomplete_cmd,
                      preview_autocomplete_cmds, draw_preview_commands_list,
                      IF console_has_focus /\ ~cursor_at_end THEN BOOLEAN
                      ELSE {cursor_at_end},
                      console_has_focus)

\* Ctrl+D delete
CtrlD ==
    /\ Running
    /\ UNCHANGED panicked
    /\ key_frame(EmptyText, None, <<>>, FALSE,
                 IF console_has_focus THEN {TRUE} ELSE stale_cursor,
                 console_has_focus)

\* Tab that accepts the first candidate of a list of any length
Tab_accept_first ==
    /\ Running
    /\ UNCHANGED panicked
    /\ IF ~console_has_focus
       THEN key_frame(console_text, selected_autocomplete_cmd,
                      preview_autocomplete_cmds, draw_preview_commands_list,
                      {cursor_at_end}, console_has_focus)
       ELSE IF ~selected_autocomplete_cmd.some
               /\ preview_autocomplete_cmds /= <<>>
       THEN key_frame(console_text,
                      Some(<<preview_autocomplete_cmds[1], 0>>),
                      preview_autocomplete_cmds, draw_preview_commands_list,
                      {cursor_at_end}, console_has_focus)
       ELSE IF Len(preview_autocomplete_cmds) >= 1
       THEN key_frame(Text(preview_autocomplete_cmds[1], <<>>),
                      selected_autocomplete_cmd, <<>>, FALSE, {TRUE},
                      console_has_focus)
       ELSE key_frame(console_text, selected_autocomplete_cmd,
                      preview_autocomplete_cmds,
                      IF draw_preview_commands_list THEN FALSE
                      ELSE preview_autocomplete_cmds /= <<>>,
                      {cursor_at_end}, console_has_focus)

\* Tab autocomplete
Tab ==
    /\ Running
    /\ UNCHANGED panicked
    /\ IF ~console_has_focus
       THEN key_frame(console_text, selected_autocomplete_cmd,
                      preview_autocomplete_cmds, draw_preview_commands_list,
                      {cursor_at_end}, console_has_focus)
       ELSE IF ~selected_autocomplete_cmd.some
               /\ preview_autocomplete_cmds /= <<>>
       THEN key_frame(console_text,
                      Some(<<preview_autocomplete_cmds[1], 0>>),
                      preview_autocomplete_cmds, draw_preview_commands_list,
                      {cursor_at_end}, console_has_focus)
       ELSE IF Len(preview_autocomplete_cmds) = 1
       THEN key_frame(Text(preview_autocomplete_cmds[1], <<>>),
                      selected_autocomplete_cmd, <<>>, FALSE, {TRUE},
                      console_has_focus)
       ELSE key_frame(console_text, selected_autocomplete_cmd,
                      preview_autocomplete_cmds,
                      IF draw_preview_commands_list THEN FALSE
                      ELSE preview_autocomplete_cmds /= <<>>,
                      {cursor_at_end}, console_has_focus)

\* up key navigation: the candidate before the selected one, the last one
\* from the first; None where the index computed is not one of the list
\* (len - 1 of an empty list, or a position past its end)
arrow_up(selected, preview) ==
    LET it == selected.val[2]
        len == Len(preview)
    IN  IF it = 0
        THEN IF len = 0 THEN None
             ELSE Some(<<preview[len], len - 1>>)
        ELSE IF it - 1 < len THEN Some(<<preview[it], it - 1>>)
             ELSE None

\* down key navigation that stays on the last candidate
arrow_down_clamp(selected, preview) ==
    LET it == selected.val[2]
        len == Len(preview)
    IN  IF it = len - 1
        THEN Some(<<preview[len], it>>)
        ELSE IF it + 1 < len THEN Some(<<preview[it + 2], it + 1>>)
             ELSE None

\* down key navigation: the candidate after the selected one, the first one
\* from the last
arrow_down(selected, preview) ==
    LET it == selected.val[2]
        len == Len(preview)
    IN  IF it = len - 1
        THEN Some(<<preview[1], 0>>)
        ELSE IF it + 1 < len THEN Some(<<preview[it + 2], it + 1>>)
             ELSE None

\* the frame of an up or down key: the keys are handled at its end, and an
\* index out of the list panics
navigate(moved) ==
    IF ~selected_autocomplete_cmd.some
    THEN /\ key_frame(console_text, selected_autocomplete_cmd,
                      preview_autocomplete_cmds, draw_preview_commands_list,
                      {cursor_at_end}, console_has_focus)
         /\ UNCHANGED panicked
    ELSE /\ key_frame(console_text,
                      IF moved.some THEN moved
                      ELSE selected_autocomplete_cmd,
                      preview_autocomplete_cmds, draw_preview_commands_list,
                      {cursor_at_end}, console_has_focus)
         /\ panicked' = ~moved.some

ArrowUp ==
    /\ Running
    /\ navigate(arrow_up(selected_autocomplete_cmd,
                         preview_autocomplete_cmds))

ArrowDown ==
    /\ Running
    /\ navigate(arrow_down(selected_autocomplete_cmd,
                           preview_autocomplete_cmds))

\* a click elsewhere takes the focus from the input field
ClickAway ==
    /\ Running
    /\ console_has_focus
    /\ UNCHANGED panicked
    /\ key_frame(console_text, selected_autocomplete_cmd,
                 preview_autocomplete_cmds, draw_preview_commands_list,
                 {cursor_at_end}, FALSE)

\* Home, End or ArrowLeft in the focused field move the cursor from or to
\* the end of its text
MoveCursor ==
    /\ Running
    /\ console_has_focus
    /\ console_text /= EmptyText
    /\ UNCHANGED panicked
    /\ key_frame(console_text, selected_autocomplete_cmd,
                 preview_autocomplete_cmds, draw_preview_commands_list,
                 {~cursor_at_end}, console_has_focus)

\* the parameters typed first: those of the longer lines, and a name given
\* the values false and 0
FirstParams ==
    TypedParams
    \cup {Pair(<<"c">>, Implicit(StrFalse)), Pair(<<"c">>, Implicit(<<"0">>))}

\* the first parameter is typed behind a command name
TypeFirstParam ==
    /\ Running
    /\ console_has_focus
    /\ console_text.cmd \in FullNames
    /\ console_text.params = <<>>
    /\ \E p \in FirstParams : text_changed(Text(console_text.cmd, <<p>>))

\* the console with its keys, over lines of at most one parameter
KeysNext ==
    \/ EditCommandName \/ TypeFirstParam \/ Submit \/ Frame \/ ClickField
    \/ ClickAway \/ MoveCursor
    \/ ArrowRight \/ CtrlD \/ Tab \/ ArrowUp \/ ArrowDown

SpecKeys == Init /\ [][KeysNext]_vars

(***************************************************************************)
(* The reducer on its own: a quoted value is drawn, parsed as the value of *)
(* a parameter and reduced.                                                *)
(***************************************************************************)
\* the longest quoted value drawn, in items
MaxItems == 2

\* the items typed between the quotes: plain characters, and a backslash
\* followed by a double quote, a backslash, one of the letters n, r, t, x,
\* or a line feed character itself
TypedItems ==
    {Plain("a"), Plain("n")}
    \cup {Escaped(c) : c \in {"\"", "\\", "n", "r", "t", "x", "\n"}}

RECURSIVE SeqsUpTo(_, _)
\* the sequences over a set, up to a length
SeqsUpTo(S, n) ==
    IF n = 0 THEN {<<>>}
    ELSE LET shorter == SeqsUpTo(S, n - 1)
         IN  shorter \cup {Append(q, x) : q \in shorter, x \in S}

\* the value of the line  cmd name: "a\"b\nc"  typed with a backslash and
\* the letter n
ExampleItems ==
    <<Plain("a"), Escaped("\""), Plain("b"), Escaped("n"), Plain("c")>>

ReduceInit ==
    /\ ConsoleInit
    /\ value_typed \in {Explicit(items) :
                           items \in (SeqsUpTo(TypedItems, MaxItems) \ {<<>>})
                                      \cup {ExampleItems}}
    /\ value_reduced = None
    /\ GraphicsInit

\* expand_command_param_value on the <value> subtree of the drawn value
ReduceValue ==
    /\ ~value_reduced.some
    /\ value_reduced' =
           Some([val |-> expand_command_param_value(ValueTree(value_typed)),
                 warns |-> unrecognized_escapes(ValueTree(value_typed))])
    /\ UNCHANGED value_typed
    /\ UNCHANGED console_vars
    /\ UNCHANGED graphics_vars

ReduceNext == ReduceValue

SpecReduce == ReduceInit /\ [][ReduceNext]_vars

(***************************************************************************)
(* Vocabulary of the properties: the dispatched line as it was typed.      *)
(***************************************************************************)
Dispatched == submitted.some
Line == submitted.val

\* the registry DebugConsole::new builds
InitialRegistry == register_debug_command(CollaboratorCommands).commands

Registered(text) == contains_key(InitialRegistry, text.cmd)
DefsOf(text) == get_mut(InitialRegistry, text.cmd).args
HasParams(text) == text.params /= <<>>
TreeCount(text) == Len(parse_input(text))

\* what a backslash and a character stand for in a quoted value
EscapeMeaning(c) ==
    CASE c = "n" -> "\n" [] c = "r" -> "\r" [] c = "t" -> "\t" [] OTHER -> c

DecodedItems(items) ==
    [i \in 1..Len(items) |->
        IF items[i].esc THEN EscapeMeaning(items[i].c) ELSE items[i].c]

\* the raw string a typed parameter carries: `--x` carries "true"
RawValue(p) ==
    IF p.kind = "flag" THEN StrTrue
    ELSE CASE p.value.q = "implicit" -> p.value.text
           [] p.value.q = "empty" -> <<>>
           [] p.value.q = "explicit" -> DecodedItems(p.value.items)

IsPositional(p) == p.kind = "indexed"
PositionalValues(text) ==
    LET ps == SelectSeq(text.params, IsPositional)
    IN  [i \in 1..Len(ps) |-> RawValue(ps[i])]

Occurrences(text, name) ==
    Cardinality({i \in 1..Len(text.params) :
                    ~IsPositional(text.params[i]) /\ text.params[i].name = name})
Named(text, name) == Occurrences(text, name) > 0
RepeatedNames(text) ==
    {text.params[i].name : i \in {j \in 1..Len(text.params) :
        ~IsPositional(text.params[j])
        /\ Occurrences(text, text.params[j].name) >= 2}}
Repeats(text) == RepeatedNames(text) /= {}

\* the name whose second occurrence comes first in the line
FirstRepeated(text) ==
    LET second == {j \in 1..Len(text.params) :
                      /\ ~IsPositional(text.params[j])
                      /\ \E i \in 1..(j - 1) :
                            /\ ~IsPositional(text.params[i])
                            /\ text.params[i].name = text.params[j].name}
    IN  text.params[CHOOSE j \in second : \A k \in second : j <= k].name

\* the non-flag definitions the line does not give by name, in declaration
\* order
UnfilledMandatory(text) ==
    SelectSeq(DefsOf(text),
              LAMBDA d : d.cba_type /= "Flag" /\ ~d.optional /\ ~Named(text, d.name))
UnfilledOptional(text) ==
    SelectSeq(DefsOf(text),
              LAMBDA d : d.cba_type /= "Flag" /\ d.optional /\ ~Named(text, d.name))

\* every value given by name converts to the type of the parameter it names
NamedValuesParse(text) ==
    \A i \in 1..Len(text.params) : \A k \in 1..Len(DefsOf(text)) :
        (~IsPositional(text.params[i]) /\ text.params[i].name = DefsOf(text)[k].name)
        => parse_value_via_definition(RawValue(text.params[i]), DefsOf(text)[k]).some

\* the first positional values convert to the types of the given slots
PositionalsParse(text, slots) ==
    \A i \in 1..Len(PositionalValues(text)) :
        i <= Len(slots)
        => parse_value_via_definition(PositionalValues(text)[i], slots[i]).some

LogHas(msg) == \E i \in 1..Len(log) : log[i].msg = msg
LogHasAbout(msg, arg) ==
    \E i \in 1..Len(log) : log[i].msg = msg /\ log[i].arg = arg

\* a line with parameters, for a registered command, that the grammar
\* derives in one way
BoundLine ==
    /\ Dispatched
    /\ TreeCount(Line) = 1
    /\ HasParams(Line)
    /\ Registered(Line)

(***************************************************************************)
(* C1.  More positional values than unfilled non-flag slots: "too many     *)
(* arguments" is reported, the callback is not invoked and the dispatcher  *)
(* does not crash.  (No name is repeated and the named values convert, so  *)
(* that binding reaches the positional values.)                            *)
(***************************************************************************)
C1_TooManyArgumentsReported ==
    (/\ BoundLine
     /\ ~Repeats(Line)
     /\ NamedValuesParse(Line)
     /\ Len(PositionalValues(Line))
          > Len(UnfilledMandatory(Line)) + Len(UnfilledOptional(Line)))
    => (/\ ~panicked
        /\ LogHas("too many arguments")
        /\ calls = <<>>)

(***************************************************************************)
(* C2.  As claimed: for a line with parameters, fewer positional values    *)
(* than unfilled mandatory parameters gives "too few arguments" and no     *)
(* callback; exactly as many, every value converting, invokes the callback *)
(* exactly once.                                                           *)
(***************************************************************************)
C2_ArityAsClaimed ==
    BoundLine
    => /\ Len(PositionalValues(Line)) < Len(UnfilledMandatory(Line))
          => (LogHas("too few arguments") /\ calls = <<>>)
       /\ (/\ Len(PositionalValues(Line)) = Len(UnfilledMandatory(Line))
           /\ NamedValuesParse(Line)
           /\ PositionalsParse(Line, UnfilledMandatory(Line)))
          => Len(calls) = 1

\* C2 as amended: the same, for a line that repeats no parameter name and
\* whose values given by name convert; then "too few arguments" is the only
\* record logged, and the one callback invoked is the command's.
C2_ArityOnceBindingReachesPositionals ==
    (BoundLine /\ ~Repeats(Line) /\ NamedValuesParse(Line))
    => /\ Len(PositionalValues(Line)) < Len(UnfilledMandatory(Line))
          => (/\ log = <<LogError("too few arguments", <<>>)>>
              /\ calls = <<>>
              /\ ~panicked)
       /\ (/\ Len(PositionalValues(Line)) = Len(UnfilledMandatory(Line))
           /\ PositionalsParse(Line, UnfilledMandatory(Line)))
          => (/\ Len(calls) = 1
              /\ calls[1].cmd = Line.cmd
              /\ ~panicked
              /\ \A i \in 1..Len(log) : log[i].msg = "command error")

\* two positional values bound two mandatory parameters, and the callback ran
C2_Witness ==
    /\ BoundLine
    /\ ~Repeats(Line)
    /\ Len(UnfilledMandatory(Line)) = 2
    /\ Len(PositionalValues(Line)) = 2
    /\ Len(calls) = 1

\* a line with parameters, one positional value short, was turned down
C2_WitnessTooFew ==
    /\ BoundLine
    /\ Len(PositionalValues(Line)) = 1
    /\ Len(UnfilledMandatory(Line)) = 2
    /\ LogHas("too few arguments")

(***************************************************************************)
(* C3.  A bare command name is bound like a line with zero parameters: for *)
(* a command with a mandatory non-flag parameter, "too few arguments" and  *)
(* no callback.                                                            *)
(***************************************************************************)
C3_BareNameIsBound ==
    (/\ Dispatched
     /\ TreeCount(Line) = 1
     /\ ~HasParams(Line)
     /\ Registered(Line)
     /\ Len(UnfilledMandatory(Line)) > 0)
    => (LogHas("too few arguments") /\ calls = <<>>)

(***************************************************************************)
(* C4.  Whenever a callback is invoked, every Flag parameter the line did  *)
(* not supply is in the mapping as Flag(false).                            *)
(***************************************************************************)
C4_MissingFlagsAreFalse ==
    \A i \in 1..Len(calls) :
        \A k \in 1..Len(DefsOf(Line)) :
            LET d == DefsOf(Line)[k]
            IN  (d.cba_type = "Flag" /\ ~Named(Line, d.name))
                => (/\ d.name \in DOMAIN calls[i].args
                    /\ calls[i].args[d.name] = Value("Flag", FALSE))

(***************************************************************************)
(* C5.  The reducer decodes the escapes of a quoted value: backslash and   *)
(* double quote, r, n, t, backslash give a double quote, a carriage        *)
(* return, a line feed, a tab, a backslash.                                *)
(***************************************************************************)
C5_EscapesDecoded ==
    (/\ value_reduced.some
     /\ \A i \in 1..Len(value_typed.items) :
           value_typed.items[i].esc
           => value_typed.items[i].c \in {"\"", "r", "n", "t", "\\"})
    => value_reduced.val.val = DecodedItems(value_typed.items)

(***************************************************************************)
(* C6.  Zero parse trees: a syntax error naming the line, and no ambiguity *)
(* report.  Several: an ambiguity report.  Neither looks a command up nor  *)
(* invokes a callback.                                                     *)
(***************************************************************************)
C6_ThreeWayPolicy ==
    Dispatched
    => /\ TreeCount(Line) = 0
          => (/\ LogHasAbout("invalid console command", TextChars(Line))
              /\ ~LogHas("ambigious command, multiple valid parse trees")
              /\ ~LogHas("command not found")
              /\ calls = <<>>)
       /\ TreeCount(Line) > 1
          => (/\ LogHas("ambigious command, multiple valid parse trees")
              /\ ~LogHas("command not found")
              /\ calls = <<>>)

(***************************************************************************)
(* C7.  No submitted line panics the dispatcher or changes the registry.   *)
(***************************************************************************)
C7_ErrorsAbortOnlyTheSubmission ==
    Dispatched => (~panicked /\ console_commands = InitialRegistry)

(***************************************************************************)
(* C8.  A line naming every parameter once, as `name: value`, has the      *)
(* outcome of the same pairs in declaration order.                         *)
(***************************************************************************)
NamesEveryParameter(text) ==
    /\ \A i \in 1..Len(text.params) : text.params[i].kind = "pair"
    /\ Len(text.params) = Len(DefsOf(text))
    /\ \A k \in 1..Len(DefsOf(text)) : Occurrences(text, DefsOf(text)[k].name) = 1

InDeclarationOrder(text) ==
    Text(text.cmd,
         [k \in 1..Len(DefsOf(text)) |->
             text.params[CHOOSE i \in 1..Len(text.params) :
                            text.params[i].name = DefsOf(text)[k].name]])

C8_NamedBindingOrderIndependent ==
    (BoundLine /\ NamesEveryParameter(Line))
    => \E r \in {dispatch(InDeclarationOrder(Line), console_commands)} :
          /\ r.log = log
          /\ r.calls = calls
          /\ r.panic = panicked

\* three named parameters, not in declaration order, were bound
C8_Witness ==
    /\ BoundLine
    /\ NamesEveryParameter(Line)
    /\ Len(Line.params) = 3
    /\ Line /= InDeclarationOrder(Line)
    /\ Len(calls) = 1

(***************************************************************************)
(* C9.  When the callback of a line with parameters is invoked, the        *)
(* positional values went, in order, to the unfilled mandatory parameters  *)
(* in declaration order and then to the unfilled optional ones; the slots  *)
(* no value reached are unbound.                                           *)
(***************************************************************************)
C9_PositionalFillOrder ==
    (BoundLine /\ calls /= <<>>)
    => LET pos == PositionalValues(Line)
           slots == UnfilledMandatory(Line) \o UnfilledOptional(Line)
           args == calls[1].args
       IN  /\ Len(pos) <= Len(slots)
           /\ \A i \in 1..Len(slots) :
                 IF i <= Len(pos)
                 THEN /\ slots[i].name \in DOMAIN args
                      /\ Some(args[slots[i].name])
                           = parse_value_via_definition(pos[i], slots[i])
                 ELSE slots[i].name \notin DOMAIN args

\* [mandatory a, optional b, mandatory c] with three positional values:
\* a = v1, c = v2, b = v3
C9_Witness ==
    /\ BoundLine
    /\ Line.cmd = NameTri
    /\ PositionalValues(Line) = <<<<"1">>, <<"x">>, <<"1">>>>
    /\ Len(calls) = 1
    /\ calls[1].args[<<"a">>] = Value("Int32", 1)
    /\ calls[1].args[<<"c">>] = Value("String", <<"x">>)
    /\ calls[1].args[<<"b">>] = Value("Int32", 1)

(***************************************************************************)
(* C10.  As claimed: every name a line supplies twice is named by a        *)
(* duplicate-parameter error, and the callback is not invoked.             *)
(***************************************************************************)
C10_EveryDuplicateReported ==
    BoundLine
    => \A n \in RepeatedNames(Line) :
          /\ LogHasAbout("duplicate command parameter", n)
          /\ calls = <<>>

\* C10 as amended: the one error logged names the name whose repetition
\* comes first in the line, and the callback is not invoked.
C10_FirstDuplicateReported ==
    (BoundLine /\ Repeats(Line))
    => /\ log = <<LogError("duplicate command parameter", FirstRepeated(Line))>>
       /\ calls = <<>>
       /\ ~panicked

\* a name given as `name: value` and as `--name` in one line was reported
C10_Witness ==
    /\ BoundLine
    /\ \E i, j \in 1..Len(Line.params) :
          /\ Line.params[i].kind = "pair"
          /\ Line.params[j].kind = "flag"
          /\ Line.params[i].name = Line.params[j].name
    /\ LogHas("duplicate command parameter")

(***************************************************************************)
(* C11.  As claimed: a supplied value that does not convert to the type of *)
(* the parameter it is matched to (by its name, or by its position among   *)
(* the unfilled slots) fails the bind with an argument parse error, and    *)
(* the callback is not invoked.                                            *)
(***************************************************************************)
Slots(text) == UnfilledMandatory(text) \o UnfilledOptional(text)

PositionalFails(text) ==
    \E i \in 1..Len(PositionalValues(text)) :
        /\ i <= Len(Slots(text))
        /\ ~parse_value_via_definition(PositionalValues(text)[i],
                                       Slots(text)[i]).some

ParseErrorLogged ==
    \E i \in 1..Len(log) : \E t \in CallbackArgumentType :
        log[i].msg = "couldn't parse argument as a valid " \o t

C11_ParseErrorAsClaimed ==
    (/\ BoundLine
     /\ ~Repeats(Line)
     /\ (~NamedValuesParse(Line) \/ PositionalFails(Line)))
    => (ParseErrorLogged /\ calls = <<>>)

\* C11 as amended: such a line never invokes the callback and never panics;
\* the error logged is the argument parse error when a value given by name
\* does not convert, or when the positional values are at least as many as
\* the unfilled mandatory parameters; with fewer it is "too few arguments".
C11_AllOrNothing ==
    (/\ BoundLine
     /\ ~Repeats(Line)
     /\ (~NamedValuesParse(Line) \/ PositionalFails(Line)))
    => /\ calls = <<>>
       /\ ~panicked
       /\ IF \/ ~NamedValuesParse(Line)
             \/ Len(PositionalValues(Line)) >= Len(UnfilledMandatory(Line))
          THEN ParseErrorLogged
          ELSE log = <<LogError("too few arguments", <<>>)>>

\* a = 1 was bound by name before the positional x failed for b
C11_Witness ==
    /\ BoundLine
    /\ Line.cmd = NameTwo
    /\ Len(Line.params) = 2
    /\ Line.params[1] = Pair(<<"a">>, Implicit(<<"1">>))
    /\ PositionalFails(Line)
    /\ ParseErrorLogged
    /\ calls = <<>>

(***************************************************************************)
(* C12.  A step that submits a line whose command name is not a key of the *)
(* registry logs 'command not found' for that name and nothing else,       *)
(* invokes no callback, and leaves the registry, the debug windows, the    *)
(* debug-trace flag and the exit flag as they were.                        *)
(***************************************************************************)
NotFoundStep ==
    /\ submitted'.some
    /\ TreeCount(submitted'.val) = 1
    /\ ~contains_key(console_commands, submitted'.val.cmd)

C12_UnknownCommandOnlyReported ==
    [][NotFoundStep
       => /\ log' = <<LogError("command not found", submitted'.val.cmd)>>
          /\ calls' = <<>>
          /\ ~panicked'
          /\ UNCHANGED <<console_commands, debug_windows,
                         debug_console_commands, is_finished>>]_vars

\* an unknown name was submitted with a parameter, and without one
C12_Witness ==
    /\ Dispatched
    /\ TreeCount(Line) = 1
    /\ ~Registered(Line)
    /\ HasParams(Line)
    /\ LogHasAbout("command not found", Line.cmd)

C12_WitnessBare ==
    /\ Dispatched
    /\ Line = Text(<<"q", "u">>, <<>>)
    /\ LogHasAbout("command not found", <<"q", "u">>)

(***************************************************************************)
(* DebugConsole::new on the tables the collaborators may hand over.        *)
(***************************************************************************)
\* commands a user system may have registered in first_call under the name
\* of the built-in command
OwnDebugCommands ==
    {ConsoleCommand(<<>>, "own", "accept"),
     ConsoleCommand(<<Def(<<"v">>, "Int32", FALSE)>>, "own", "accept"),
     ConsoleCommand(<<Def(<<"v", "a", "l", "u", "e">>, "Bool", FALSE)>>,
                    "own", "refuse")}

\* a table with or without an entry
put(commands, present, name, cmd) ==
    IF present THEN insert(commands, name, cmd) ELSE commands

\* the tables: quit, any of the user systems' commands, and possibly a
\* command of theirs under the built-in's name
Tables ==
    {put(put(put(put(table, two, NameTwo, get_mut(CollaboratorCommands, NameTwo)),
                     tri, NameTri, get_mut(CollaboratorCommands, NameTri)),
                 tog, NameTog, get_mut(CollaboratorCommands, NameTog)),
             nop, NameNop, ConsoleCommand(<<>>, "nop", "accept")) :
        two \in BOOLEAN, tri \in BOOLEAN, tog \in BOOLEAN, nop \in BOOLEAN,
        table \in {insert(<<>>, NameQuit, get_mut(CollaboratorCommands, NameQuit))}
                  \cup {insert(insert(<<>>, NameQuit,
                                      get_mut(CollaboratorCommands, NameQuit)),
                               NameDebug, own) : own \in OwnDebugCommands}}

\* before the constructor runs: the table as it was handed over
NewInit ==
    /\ FieldsInit
    /\ console_commands \in Tables
    /\ debug_windows = [id \in {<<"w">>} |-> FALSE]
    /\ log = <<>>
    /\ constructed = FALSE
    /\ value_typed = EmptyQuoted
    /\ value_reduced = None
    /\ GraphicsInit

\* DebugConsole::new: the built-in command is registered
New ==
    /\ ~constructed
    /\ \E r \in {register_debug_command(console_commands)} :
          /\ console_commands' = r.commands
          /\ log' = r.log
    /\ constructed' = TRUE
    /\ UNCHANGED <<console_text, debug_windows, debug_console_commands,
                   is_finished, selected_autocomplete_cmd,
                   preview_autocomplete_cmds, draw_preview_commands_list,
                   set_console_focus, console_has_focus, cursor_at_end,
                   calls, panicked, submitted, interface_call, parse_call,
                   render_call, reduce_call>>
    /\ UNCHANGED <<reducer_vars, graphics_vars>>

NewNext == New

SpecNew == NewInit /\ [][NewNext]_vars

\* C15: registering under a name the registry already holds overwrites the
\* entry: once DebugConsole::new has registered the built-in
\* k9_debug_console_command, the registry entry of that name is the built-in
\* command, also when the table handed over already held the name.
C15_BuiltinOverwrites ==
    constructed =>
        /\ contains_key(console_commands, NameDebug)
        /\ get_mut(console_commands, NameDebug) = cc_debug_console_command

(***************************************************************************)
(* Completion and keys.                                                    *)
(***************************************************************************)
\* the selection names a candidate at its index in the candidate list
SelectionInList ==
    selected_autocomplete_cmd.some =>
        \E i \in 1..Len(preview_autocomplete_cmds) :
            /\ selected_autocomplete_cmd.val[2] = i - 1
            /\ selected_autocomplete_cmd.val[1] = preview_autocomplete_cmds[i]

\* C13: whenever a candidate is selected, the selection is a pair (name, i)
\* where i is a valid index into the candidate list and the list's entry at
\* i is that name; in particular no selection is present while the list is
\* empty.  Stated over every frame of the console with its keys.
C13_SelectionAlwaysInList == ~panicked => SelectionInList

\* a frame in which the input text is edited
EditStep == EditCommandName \/ TypeParam \/ TypeFirstParam

\* the candidates of a text: the registered names that start with it, none
\* for the empty text
IsCandidate(name, chars) ==
    /\ chars /= <<>>
    /\ contains_key(console_commands, name)
    /\ starts_with(name, chars)

\* the 0-based position of a listed name
PositionIn(list, name) == (CHOOSE i \in 1..Len(list) : list[i] = name) - 1

\* C14: after every edit of the input text the candidate list holds exactly
\* the registered names that start with the text, in ascending key order and
\* so without duplicates; for the empty text the list is empty and nothing
\* is selected.  A previously selected name that is in the new list stays
\* selected at its position in the new list; otherwise the first candidate
\* is selected, or nothing when there is none.
C14_CandidatesAfterEdit ==
    [][EditStep =>
        LET chars == TextChars(console_text')
            list == preview_autocomplete_cmds'
            listed == {list[i] : i \in 1..Len(list)}
        IN  /\ \A name \in listed : IsCandidate(name, chars)
            /\ \A i \in 1..Len(console_commands) :
                  IsCandidate(console_commands[i].name, chars)
                      => console_commands[i].name \in listed
            /\ \A i, j \in 1..Len(list) : i < j => StrLess(list[i], list[j])
            /\ chars = <<>> =>
                  list = <<>> /\ selected_autocomplete_cmd' = None
            /\ selected_autocomplete_cmd' =
                  IF selected_autocomplete_cmd.some
                     /\ selected_autocomplete_cmd.val[1] \in listed
                  THEN Some(<<selected_autocomplete_cmd.val[1],
                              PositionIn(list,
                                         selected_autocomplete_cmd.val[1])>>)
                  ELSE IF list /= <<>> THEN Some(<<list[1], 0>>)
                  ELSE None
    ]_vars

\* `t' typed after `tr': tri, selected before, is selected at its new index
C14_Witness ==
    /\ console_text = Text(<<"t">>, <<>>)
    /\ preview_autocomplete_cmds = <<NameTog, NameTri, NameTwo>>
    /\ selected_autocomplete_cmd = Some(<<NameTri, 1>>)
    /\ draw_preview_commands_list = FALSE

\* the example: `qui' typed, quit is the candidate selected
C14_WitnessExample ==
    /\ console_text = Text(<<"q", "u", "i">>, <<>>)
    /\ preview_autocomplete_cmds = <<NameQuit>>
    /\ selected_autocomplete_cmd = Some(<<NameQuit, 0>>)

\* the console as line 694-698 leaves it
ConsoleReset ==
    /\ console_text = EmptyText
    /\ preview_autocomplete_cmds = <<>>
    /\ selected_autocomplete_cmd = None
    /\ ~draw_preview_commands_list
    /\ set_console_focus

\* C16: after every submission, whether it succeeded or ended in an error,
\* the console is reset: the input text is empty, the candidate list is
\* empty, nothing is selected, the flag showing the full candidate list is
\* off and the focus is requested for the input field.
C16_ResetAfterEverySubmission == Dispatched => ConsoleReset

\* the reset where the submission did not panic
C16_ResetUnlessPanicked == (Dispatched /\ ~panicked) => ConsoleReset


(***************************************************************************)
(* The interface handle a callback is given, its operations run on their   *)
(* own.                                                                    *)
(***************************************************************************)
\* open_debug_window with an entry added for an id that has none
open_debug_window_insert(windows, id) ==
    IF id \in DOMAIN windows
    THEN [windows |-> [windows EXCEPT ![id] = TRUE], ret |-> TRUE]
    ELSE [windows |-> [w \in DOMAIN windows \cup {id} |->
                          IF w = id THEN TRUE ELSE windows[w]],
          ret |-> FALSE]

\* the three operations: get_mut(id), and the flag set where it is Some
open_debug_window(windows, id) ==
    IF id \in DOMAIN windows
    THEN [windows |-> [windows EXCEPT ![id] = TRUE], ret |-> TRUE]
    ELSE [windows |-> windows, ret |-> FALSE]

close_debug_window(windows, id) ==
    IF id \in DOMAIN windows
    THEN [windows |-> [windows EXCEPT ![id] = FALSE], ret |-> TRUE]
    ELSE [windows |-> windows, ret |-> FALSE]

set_open_debug_window(windows, id, set_open) ==
    IF id \in DOMAIN windows
    THEN [windows |-> [windows EXCEPT ![id] = set_open], ret |-> TRUE]
    ELSE [windows |-> windows, ret |-> FALSE]

\* the windows the collaborators hand over, and the ids a callback may name
WindowIds == {<<"w">>, <<"x">>, <<"y">>}
CalledIds == WindowIds \cup {<<"z">>}

\* the console constructed with these windows, all closed
WindowInit ==
    /\ FieldsInit
    /\ console_commands = register_debug_command(CollaboratorCommands).commands
    /\ debug_windows = [id \in WindowIds |-> FALSE]
    /\ log = register_debug_command(CollaboratorCommands).log
    /\ constructed = TRUE
    /\ value_typed = EmptyQuoted
    /\ value_reduced = None
    /\ GraphicsInit

\* a call on the handle: the windows it leaves and what it returns
interface_step(op, id, set_open, r) ==
    /\ debug_windows' = r.windows
    /\ interface_call' = Some([op |-> op, id |-> id, set_open |-> set_open,
                               before |-> debug_windows, ret |-> r.ret])
    /\ UNCHANGED <<console_text, console_commands, debug_console_commands,
                   is_finished, selected_autocomplete_cmd,
                   preview_autocomplete_cmds, draw_preview_commands_list,
                   set_console_focus, console_has_focus, cursor_at_end, log,
                   calls, panicked, submitted, constructed, parse_call,
                   render_call, reduce_call>>
    /\ UNCHANGED <<reducer_vars, graphics_vars>>

OpenDebugWindow ==
    \E id \in CalledIds :
        interface_step("open", id, TRUE, open_debug_window(debug_windows, id))

CloseDebugWindow ==
    \E id \in CalledIds :
        interface_step("close", id, FALSE,
                       close_debug_window(debug_windows, id))

SetOpenDebugWindow ==
    \E id \in CalledIds, set_open \in BOOLEAN :
        interface_step("set_open", id, set_open,
                       set_open_debug_window(debug_windows, id, set_open))

WindowNext == OpenDebugWindow \/ CloseDebugWindow \/ SetOpenDebugWindow

SpecWindows == WindowInit /\ [][WindowNext]_vars

\* C17: each of open_debug_window(id), close_debug_window(id) and
\* set_open_debug_window(id, b) returns true exactly when id is a known
\* debug window.  For a known id it sets that window's open flag (to true,
\* false and b) and leaves every other window as it was; for an unknown id
\* it changes no window and adds no entry.
C17_HandleSetsOnlyTheNamedWindow ==
    interface_call.some =>
        LET call == interface_call.val
            known == call.id \in DOMAIN call.before
        IN  /\ call.ret = known
            /\ DOMAIN debug_windows = DOMAIN call.before
            /\ \A w \in DOMAIN call.before :
                  debug_windows[w] =
                      IF w = call.id THEN call.set_open ELSE call.before[w]

\* close_debug_window on an open window beside another open one
C17_Witness ==
    /\ interface_call.some
    /\ interface_call.val.op = "close"
    /\ interface_call.val.id = <<"w">>
    /\ interface_call.val.before[<<"w">>]
    /\ interface_call.val.before[<<"x">>]
    /\ ~debug_windows[<<"w">>]

\* a call naming no window
C17_WitnessUnknown ==
    /\ interface_call.some
    /\ interface_call.val.id = <<"z">>
    /\ ~interface_call.val.ret
    /\ \E w \in WindowIds : debug_windows[w]


(***************************************************************************)
(* The value parser run on its own.                                        *)
(***************************************************************************)
\* the raw strings handed to it: every string of up to two of these
\* characters, and some literals
RawChars == {"0", "1", "2", "t", "T", "-", "."}
RawStrings ==
    {<<>>}
    \cup {<<a>> : a \in RawChars \cup {"x", "y", "f", " "}}
    \cup {<<a, b>> : a, b \in RawChars}
    \cup {StrTrue, StrFalse, <<"T", "R", "U", "E">>, <<"T", "r", "u", "e">>,
          <<"F", "A", "L", "S", "E">>, <<"y", "e", "s">>, <<"n", "o">>,
          <<"t", "r", "u">>, <<"t", "r", "u", "e", " ">>,
          <<"1", "0", "0">>, <<"0", "0", "1">>, <<"1", ".", "5">>}

CbaTypes ==
    {"Int32", "Int64", "Float32", "Float64", "String", "Bool", "Flag"}

ParseInit ==
    /\ ConsoleInit
    /\ value_typed = EmptyQuoted
    /\ value_reduced = None
    /\ GraphicsInit

\* parse_value_via_definition on a raw string and a definition
ParseValue ==
    /\ \E value \in RawStrings, cba_type \in CbaTypes :
          \E def \in {Def(<<"v">>, cba_type, FALSE)} :
              parse_call' =
                  Some([value |-> value, def |-> def,
                        ret |-> parse_value_via_definition(value, def)])
    /\ UNCHANGED <<console_text, console_commands, debug_windows,
                   debug_console_commands, is_finished,
                   selected_autocomplete_cmd, preview_autocomplete_cmds,
                   draw_preview_commands_list, set_console_focus,
                   console_has_focus, cursor_at_end, log, calls, panicked,
                   submitted, constructed, interface_call, render_call,
                   reduce_call>>
    /\ UNCHANGED <<reducer_vars, graphics_vars>>

ParseNext == ParseValue

SpecParse == ParseInit /\ [][ParseNext]_vars

\* C18: the value parser for Bool accepts exactly four raw strings: `true'
\* and `1' give Bool(true), `false' and `0' give Bool(false); every other
\* raw string (TRUE, yes, 01, 10, the empty string, any other single
\* character) fails to parse.
C18_BoolAcceptsFourStrings ==
    (parse_call.some /\ parse_call.val.def.cba_type = "Bool") =>
        parse_call.val.ret =
            CASE parse_call.val.value \in {StrTrue, <<"1">>} ->
                    Some(Value("Bool", TRUE))
              [] parse_call.val.value \in {StrFalse, <<"0">>} ->
                    Some(Value("Bool", FALSE))
              [] OTHER -> None

\* `10' handed to the Bool parser, which refuses it
C18_Witness ==
    /\ parse_call.some
    /\ parse_call.val.def.cba_type = "Bool"
    /\ parse_call.val.value = <<"1", "0">>
    /\ ~parse_call.val.ret.some

\* `1' handed to the Bool parser
C18_WitnessOne ==
    /\ parse_call.some
    /\ parse_call.val.def.cba_type = "Bool"
    /\ parse_call.val.value = <<"1">>
    /\ parse_call.val.ret = Some(Value("Bool", TRUE))


\* the 1-based place of a definition among the unfilled optional ones
PlaceIn(defs, name) == CHOOSE j \in 1..Len(defs) : defs[j].name = name

\* in the mapping of the call recorded: every mandatory non-flag parameter
\* is present, and an optional one neither named nor reached by a
\* positional value is absent
MandatoryPresentOptionalAbsent ==
    LET args == calls[1].args
        npos == Len(PositionalValues(Line))
        mand == UnfilledMandatory(Line)
        opt == UnfilledOptional(Line)
    IN  \A k \in 1..Len(DefsOf(Line)) :
            LET d == DefsOf(Line)[k]
            IN  /\ (d.cba_type /= "Flag" /\ ~d.optional)
                      => d.name \in DOMAIN args
                /\ (/\ d.cba_type /= "Flag"
                    /\ d.optional
                    /\ ~Named(Line, d.name)
                    /\ Len(mand) + PlaceIn(opt, d.name) > npos)
                      => d.name \notin DOMAIN args

\* C19: on a successful bind (the callback of a registered command is
\* invoked with the mapping bound), every mandatory non-flag parameter is
\* present in the mapping, and an optional non-flag parameter that was
\* neither given by name nor reached by a positional value is absent from
\* it: no default value is inserted.
C19_MandatoryPresentOptionalAbsent ==
    (Dispatched /\ TreeCount(Line) = 1 /\ Registered(Line) /\ calls /= <<>>)
    => MandatoryPresentOptionalAbsent

\* the same where the line has parameters, so that the binder runs
C19_OnLinesWithParameters ==
    (BoundLine /\ calls /= <<>>) => MandatoryPresentOptionalAbsent

\* `tri 1 x': a and c are bound, the optional b is absent
C19_WitnessAbsent ==
    /\ BoundLine
    /\ Line.cmd = NameTri
    /\ Len(calls) = 1
    /\ DOMAIN calls[1].args = {<<"a">>, <<"c">>}


\* a Tab frame of the focused console
TabStep == Tab /\ console_has_focus

\* C20: Tab, pressed while the console has focus, does exactly one of three
\* things: (1) with nothing selected and a non-empty candidate list it
\* selects candidate 0; (2) otherwise, with exactly one candidate, it
\* replaces the input text with that candidate and clears the candidate
\* list; (3) otherwise it toggles the flag showing the full candidate list,
\* which is turned on only when the list is non-empty, and leaves the
\* selection and the input text unchanged.
C20_TabDoesOneOfThree ==
    [][TabStep =>
        LET list == preview_autocomplete_cmds
        IN  IF ~selected_autocomplete_cmd.some /\ list /= <<>>
            THEN /\ selected_autocomplete_cmd' = Some(<<list[1], 0>>)
                 /\ UNCHANGED <<console_text, preview_autocomplete_cmds,
                                draw_preview_commands_list>>
            ELSE IF Len(list) = 1
            THEN /\ console_text' = Text(list[1], <<>>)
                 /\ preview_autocomplete_cmds' = <<>>
            ELSE /\ draw_preview_commands_list' =
                        IF draw_preview_commands_list THEN FALSE
                        ELSE list /= <<>>
                 /\ UNCHANGED <<console_text, selected_autocomplete_cmd,
                                preview_autocomplete_cmds>>
    ]_vars

\* the single candidate accepted: `quit' is the text, the list is empty
\* and the selection is the one made before
C20_WitnessAccept ==
    /\ console_text = Text(NameQuit, <<>>)
    /\ preview_autocomplete_cmds = <<>>
    /\ selected_autocomplete_cmd = Some(<<NameQuit, 0>>)
    /\ console_has_focus

\* the flag turned on over the three candidates of `t'
C20_WitnessToggle ==
    /\ console_text = Text(<<"t">>, <<>>)
    /\ Len(preview_autocomplete_cmds) = 3
    /\ draw_preview_commands_list


C21_WitnessCaretElsewhere ==
    /\ selected_autocomplete_cmd.some
    /\ preview_autocomplete_cmds /= <<>>
    /\ ~cursor_at_end
    /\ Running


\* a selection at a valid index of a non-empty candidate list
SelectionAt(i, n) ==
    /\ selected_autocomplete_cmd.some
    /\ n = Len(preview_autocomplete_cmds)
    /\ n >= 1
    /\ i = selected_autocomplete_cmd.val[2]
    /\ i < n
    /\ selected_autocomplete_cmd.val[1] = preview_autocomplete_cmds[i + 1]

\* the candidate at a 0-based index, as a selection
Candidate(j) == Some(<<preview_autocomplete_cmds[j + 1], j>>)

RECURSIVE DownTimes(_, _, _)
\* a selection after k presses of the down key
DownTimes(selected, preview, k) ==
    IF k = 0 THEN selected
    ELSE DownTimes(arrow_down(selected, preview), preview, k - 1)

\* C22: with a selection at index i of a candidate list of length n >= 1,
\* ArrowDown moves the selection to index (i+1) mod n and ArrowUp to
\* (i-1) mod n, wrapping to the other end and never clearing the selection,
\* the selected name being the candidate at the new index; so Up followed
\* by Down, or Down followed by Up, restores the selection, and n presses
\* of Down return to the starting candidate.  With no selection, Up and
\* Down change nothing.
C22_UpDownCycle ==
    [][/\ \A i, n \in 0..Len(preview_autocomplete_cmds) :
             SelectionAt(i, n) =>
                /\ ArrowDown =>
                      /\ selected_autocomplete_cmd' = Candidate((i + 1) % n)
                      /\ ~panicked'
                /\ ArrowUp =>
                      /\ selected_autocomplete_cmd' = Candidate((i + n - 1) % n)
                      /\ ~panicked'
                /\ arrow_down(arrow_up(selected_autocomplete_cmd,
                                       preview_autocomplete_cmds),
                              preview_autocomplete_cmds)
                      = selected_autocomplete_cmd
                /\ arrow_up(arrow_down(selected_autocomplete_cmd,
                                       preview_autocomplete_cmds),
                            preview_autocomplete_cmds)
                      = selected_autocomplete_cmd
                /\ DownTimes(selected_autocomplete_cmd,
                             preview_autocomplete_cmds, n)
                      = selected_autocomplete_cmd
       /\ (~selected_autocomplete_cmd.some /\ (ArrowUp \/ ArrowDown)) =>
             /\ UNCHANGED <<console_text, preview_autocomplete_cmds,
                            selected_autocomplete_cmd>>
             /\ ~panicked'
    ]_vars

\* two, the last of the three candidates of `t', selected
C22_Witness ==
    /\ console_text = Text(<<"t">>, <<>>)
    /\ preview_autocomplete_cmds = <<NameTog, NameTri, NameTwo>>
    /\ selected_autocomplete_cmd = Some(<<NameTwo, 2>>)
    /\ ~panicked


(***************************************************************************)
(* The rendering of the full candidate list, run on its own.               *)
(***************************************************************************)
MaxListLen == 6
MaxSlots == 6

\* the indexes from..to, ascending
Range(from, to) == [k \in 1..(to - from + 1) |-> from + k - 1]

\* draw preview command list, with a selection: the window computed around
\* the selection, the markers, and the indexes of the candidates rendered
preview_window(prev_list_len, max_entries, sel_cmd_it) ==
    LET max_entries_l1 == max_entries - 1
        max_prev_list_idx == prev_list_len - 1
        div_2 == max_entries_l1 \div 2
        preview_min_diff == IF max_entries_l1 % 2 = 0 THEN div_2
                            ELSE div_2 + 1
        preview_max_diff == div_2
        window ==
            IF prev_list_len <= max_entries
            THEN [preview_min |-> 0, preview_max |-> max_prev_list_idx,
                  more_above |-> None, more_below |-> None]
            ELSE IF sel_cmd_it - preview_min_diff < 0
            THEN [preview_min |-> 0, preview_max |-> max_entries_l1,
                  more_above |-> None,
                  more_below |-> Some(prev_list_len - max_entries_l1)]
            ELSE IF sel_cmd_it + preview_max_diff >= max_prev_list_idx
            THEN [preview_min |-> prev_list_len - max_entries,
                  preview_max |-> max_prev_list_idx,
                  more_above |-> Some(prev_list_len - max_entries + 1),
                  more_below |-> None]
            ELSE [preview_min |-> sel_cmd_it - preview_min_diff,
                  preview_max |-> sel_cmd_it + preview_max_diff,
                  more_above |->
                      IF sel_cmd_it - preview_min_diff /= 0
                      THEN Some(sel_cmd_it - preview_min_diff + 1)
                      ELSE None,
                  more_below |->
                      Some(prev_list_len
                           - (sel_cmd_it + preview_max_diff))]
        from == IF window.more_above.some THEN window.preview_min + 1
                ELSE window.preview_min
        to == IF window.more_below.some THEN window.preview_max - 1
              ELSE window.preview_max
        rendered == Range(from, to)
    IN  [window |-> window,
         rendered |-> rendered,
         lines |-> (IF window.more_above.some THEN 1 ELSE 0)
                   + Len(rendered)
                   + (IF window.more_below.some THEN 1 ELSE 0),
         panic |-> \E k \in 1..Len(rendered) :
                      rendered[k] < 0 \/ rendered[k] >= prev_list_len]

RenderInit ==
    /\ ConsoleInit
    /\ value_typed = EmptyQuoted
    /\ value_reduced = None
    /\ GraphicsInit

\* the list rendered for a list length, a number of slots and a selection
RenderPreview ==
    /\ \E prev_list_len \in 1..MaxListLen, max_entries \in 1..MaxSlots :
          \E sel_cmd_it \in 0..(prev_list_len - 1) :
              render_call' =
                  Some([prev_list_len |-> prev_list_len,
                        max_entries |-> max_entries,
                        sel_cmd_it |-> sel_cmd_it,
                        ret |-> preview_window(prev_list_len, max_entries,
                                               sel_cmd_it)])
    /\ UNCHANGED <<console_text, console_commands, debug_windows,
                   debug_console_commands, is_finished,
                   selected_autocomplete_cmd, preview_autocomplete_cmds,
                   draw_preview_commands_list, set_console_focus,
                   console_has_focus, cursor_at_end, log, calls, panicked,
                   submitted, constructed, interface_call, parse_call,
                   reduce_call>>
    /\ UNCHANGED <<reducer_vars, graphics_vars>>

RenderNext == RenderPreview

SpecRender == RenderInit /\ [][RenderNext]_vars

\* what the claims say of a rendering
SlotCount == render_call.val.max_entries
ListLen == render_call.val.prev_list_len
Selection == render_call.val.sel_cmd_it
Rendering == render_call.val.ret
WindowBefore == SlotCount \div 2
WindowAfter == SlotCount - WindowBefore - 1

\* the window claimed: around the selection, shifted to start at 0 or to
\* end at the last index where it would cross an end of the list
ClaimedWindowMin ==
    IF Selection - WindowBefore < 0 THEN 0
    ELSE IF Selection + WindowAfter > ListLen - 1 THEN ListLen - SlotCount
    ELSE Selection - WindowBefore

FitsOrWindowed ==
    IF ListLen <= SlotCount
    THEN /\ Rendering.rendered = Range(0, ListLen - 1)
         /\ ~Rendering.window.more_above.some
         /\ ~Rendering.window.more_below.some
    ELSE /\ Rendering.window.preview_min = ClaimedWindowMin
         /\ Rendering.window.preview_max = ClaimedWindowMin + SlotCount - 1

\* C23: with `slots' available lines, a list of at most `slots' candidates
\* is shown whole without a `<N more>' marker; a longer one is shown through
\* a window around the selection index s of floor(slots/2) positions before
\* s and slots - floor(slots/2) - 1 positions after it, shifted to start at
\* 0 or to end at the last index where it would cross an end of the list,
\* and the rendered lines, candidates and markers, number exactly `slots'.
C23_WindowOfExactlySlotsLines ==
    render_call.some =>
        /\ FitsOrWindowed
        /\ ListLen > SlotCount => Rendering.lines = SlotCount

\* the window alone, and the number of lines from two slots on
C23_WindowPlaced == render_call.some => FitsOrWindowed
C23_LinesFromTwoSlots ==
    (render_call.some /\ ListLen > SlotCount /\ SlotCount >= 2)
    => Rendering.lines = SlotCount

\* C29: whenever the full candidate list is drawn with a selection, for
\* every slot count >= 1, every list length and every selection index, the
\* selected candidate is among the rendered entries, never hidden behind a
\* `<N more>' marker, and every rendered index j satisfies
\* 0 <= j < list length.
C29_SelectionRendered ==
    render_call.some =>
        /\ \E k \in 1..Len(Rendering.rendered) :
              Rendering.rendered[k] = Selection
        /\ \A k \in 1..Len(Rendering.rendered) :
              Rendering.rendered[k] >= 0 /\ Rendering.rendered[k] < ListLen

\* the indexes alone, and the selection from three slots on
C29_IndexesInList == render_call.some => ~Rendering.panic
C29_SelectionFromThreeSlots ==
    (render_call.some /\ SlotCount >= 3)
    => \E k \in 1..Len(Rendering.rendered) :
          Rendering.rendered[k] = Selection


\* the Flag parameters a line gives by name
NamedFlags(text) ==
    {DefsOf(text)[k].name : k \in {j \in 1..Len(DefsOf(text)) :
        DefsOf(text)[j].cba_type = "Flag" /\ Named(text, DefsOf(text)[j].name)}}

\* C24: a parameter declared with type Flag that is given by name binds to
\* Flag(true) whatever raw value accompanies it (`--name', `name: false',
\* `name: 0', `name: anything'), and a Flag parameter never causes an
\* argument parse error.
C24_NamedFlagIsTrue ==
    BoundLine =>
        \A name \in NamedFlags(Line) :
            /\ \A i \in 1..Len(calls) :
                  /\ name \in DOMAIN calls[i].args
                  /\ calls[i].args[name] = Value("Flag", TRUE)
            /\ \A i \in 1..Len(log) : \A t \in CallbackArgumentType :
                  ~(/\ log[i].msg = "couldn't parse argument as a valid " \o t
                    /\ log[i].arg = name)
            /\ (Len(Line.params) = 1 /\ ~Repeats(Line)) => Len(calls) = 1

\* `tog c: false': the callback is invoked with c bound to Flag(true)
C24_Witness ==
    /\ BoundLine
    /\ Line = Text(NameTog, <<Pair(<<"c">>, Implicit(StrFalse))>>)
    /\ Len(calls) = 1
    /\ calls[1].args[<<"c">>] = Value("Flag", TRUE)

\* `tog c: 0'
C24_WitnessZero ==
    /\ BoundLine
    /\ Line = Text(NameTog, <<Pair(<<"c">>, Implicit(<<"0">>))>>)
    /\ Len(calls) = 1
    /\ calls[1].args[<<"c">>] = Value("Flag", TRUE)


(***************************************************************************)
(* The reducer of the parameter subtree, run on its own.                   *)
(***************************************************************************)
MaxTyped == 3

\* the parameters of the lines reduced: positional, flag and named, with
\* plain, quoted, empty and escaped values
ReducedParams ==
    {Indexed(Implicit(<<"1">>)), Indexed(EmptyQuoted),
     Indexed(Explicit(<<Plain("a"), Plain("n")>>)),
     FlagParam(<<"x">>),
     Pair(<<"x">>, Implicit(<<"v">>)), Pair(<<"y">>, EmptyQuoted),
     Pair(<<"x">>, Explicit(<<Plain("a"), Escaped("\"")>>)),
     Pair(<<"y">>, Explicit(<<Escaped("n")>>))}

\* the lines of one to n of these parameters
ParamLists(n) ==
    UNION {[1..k -> ReducedParams] : k \in 1..n}

ParamsInit ==
    /\ ConsoleInit
    /\ value_typed = EmptyQuoted
    /\ value_reduced = None
    /\ GraphicsInit

\* expand_command_parameters on the <command_parameters> subtree of a line
ReduceParams ==
    /\ \E params \in ParamLists(MaxTyped) :
          reduce_call' =
              Some([params |-> params,
                    ret |-> expand_command_parameters(
                                CommandParametersTree(params))])
    /\ UNCHANGED <<console_text, console_commands, debug_windows,
                   debug_console_commands, is_finished,
                   selected_autocomplete_cmd, preview_autocomplete_cmds,
                   draw_preview_commands_list, set_console_focus,
                   console_has_focus, cursor_at_end, log, calls, panicked,
                   submitted, constructed, interface_call, parse_call,
                   render_call>>
    /\ UNCHANGED <<reducer_vars, graphics_vars>>

ParamsNext == ReduceParams

SpecParams == ParamsInit /\ [][ParamsNext]_vars

\* the name a parameter is reduced to: empty for a positional value
ReducedName(p) == IF IsPositional(p) THEN <<>> ELSE p.name

\* C25: the reducer turns the parameter part of a parse tree into a list
\* with exactly one pair per parameter, in the left-to-right order of the
\* parameters in the line: a positional value gives ("", value), a flag
\* `--x' gives ("x", "true"), `x: v' gives ("x", decoded v), and an explicit
\* empty string gives the empty value, for any number of parameters.
C25_OnePairPerParameterInOrder ==
    reduce_call.some =>
        /\ Len(reduce_call.val.ret) = Len(reduce_call.val.params)
        /\ \A i \in 1..Len(reduce_call.val.params) :
              reduce_call.val.ret[i] =
                  <<ReducedName(reduce_call.val.params[i]),
                    RawValue(reduce_call.val.params[i])>>

\* the same with the values the reducer itself makes of the typed ones
C25_OrderAndNames ==
    reduce_call.some =>
        /\ Len(reduce_call.val.ret) = Len(reduce_call.val.params)
        /\ \A i \in 1..Len(reduce_call.val.params) :
              LET p == reduce_call.val.params[i]
              IN  /\ reduce_call.val.ret[i][1] = ReducedName(p)
                  /\ (p.kind = "flag" \/ p.value.q /= "explicit"
                      \/ \A k \in 1..Len(p.value.items) :
                            p.value.items[k].esc
                            => p.value.items[k].c \in {"\"", "\\"})
                     => reduce_call.val.ret[i][2] = RawValue(p)


\* C26: in no reachable state of the console does ArrowUp or ArrowDown
\* index the candidate list out of its bounds or underflow len - 1; in
\* particular the keys do not panic right after a candidate was accepted
\* with ArrowRight or with Tab, which clear the candidate list.
C26_NavigationNeverPanics == [][(ArrowUp \/ ArrowDown) => ~panicked']_vars

(***************************************************************************)
(* C27: a submission invokes at most one callback, and it is the one       *)
(* registered under exactly the command name of the submitted line; the    *)
(* selected candidate and the names the line is a prefix of play no part.  *)
(***************************************************************************)
C27_ExactNameDispatch ==
    [][Submit
       => /\ Len(calls') <= 1
          /\ \A i \in 1..Len(calls') :
                /\ calls'[i].cmd = console_text.cmd
                /\ contains_key(console_commands, console_text.cmd)
          /\ (~contains_key(console_commands, console_text.cmd)
                => calls' = <<>> /\ is_finished' = is_finished)]_vars

\* `qu` was submitted, which only ever happens with `quit` the selected
\* candidate, and nothing ran
C27_Witness ==
    /\ Dispatched
    /\ Line.cmd = <<"q", "u">>
    /\ calls = <<>>
    /\ ~is_finished
    /\ ~panicked

\* `quit` was submitted and the one callback under that name ran
C27_WitnessRuns ==
    /\ Dispatched
    /\ Line.cmd = NameQuit
    /\ Len(calls) = 1
    /\ calls[1].cmd = NameQuit
    /\ is_finished

\* whenever `qu` is about to be submitted, `quit` is the selected candidate
C27_QuitSelectedAtSubmission ==
    (Running /\ console_has_focus /\ console_text.cmd = <<"q", "u">>)
        => /\ selected_autocomplete_cmd.some
           /\ selected_autocomplete_cmd.val[1] = NameQuit

(***************************************************************************)
(* C28: on a line with at least one parameter the mapping handed to the    *)
(* callback has declared parameter names for keys and, under each key, a   *)
(* value of the declared type; a named parameter or flag whose name the    *)
(* command does not declare is dropped: the line is bound, and reported,   *)
(* as the same line without it is.                                         *)
(***************************************************************************)
DeclaredNames(text) == {DefsOf(text)[k].name : k \in 1..Len(DefsOf(text))}
DeclaredType(text, name) ==
    DefsOf(text)[CHOOSE k \in 1..Len(DefsOf(text)) :
                    DefsOf(text)[k].name = name].cba_type
Undeclared(text) ==
    {i \in 1..Len(text.params) :
        ~IsPositional(text.params[i])
        /\ text.params[i].name \notin DeclaredNames(text)}
RepeatsUndeclared(text) == RepeatedNames(text) \ DeclaredNames(text) /= {}

\* the reduced parameters of the line, and those of them that are positional
\* or name a declared parameter
LineArgs(text) == expand_command_parameters(parse_input(text)[1].rhs[3])
DeclaredArgs(text) ==
    SelectSeq(LineArgs(text),
              LAMBDA a : a[1] = <<>> \/ a[1] \in DeclaredNames(text))

\* what dispatching the bound arguments b of the line does
OutcomeOf(text, b) ==
    IF b.panic THEN NoCall(b.log, TRUE)
    ELSE IF b.error THEN NoCall(b.log, FALSE)
    ELSE LET r == invoke_callback(text.cmd,
                                  get_mut(InitialRegistry, text.cmd),
                                  b.complete_args)
         IN  [r EXCEPT !.log = b.log \o r.log]

MappingDeclared ==
    \A i \in 1..Len(calls) :
        /\ DOMAIN calls[i].args \subseteq DeclaredNames(Line)
        /\ \A k \in DOMAIN calls[i].args :
              calls[i].args[k].variant = DeclaredType(Line, k)

UndeclaredDropped ==
    LET r == OutcomeOf(Line, bind_arguments(DeclaredArgs(Line), DefsOf(Line)))
    IN  /\ calls = r.calls
        /\ log = r.log
        /\ panicked = r.panic

C28_WitnessRepeated ==
    /\ BoundLine
    /\ RepeatsUndeclared(Line)
    /\ calls = <<>>
    /\ LogHas("duplicate command parameter")

(***************************************************************************)
(* The texture commands get_render_commands processes, one a step: the     *)
(* create_texture_rgb8 of a file under a fresh id and the delete_texture   *)
(* of any id, given out or not, deleted before or not.                     *)
(***************************************************************************)
MaxTextures == 4

FilePaths == {"a.png", "b.png"}
\* an id create_texture_rgb8 never gave out
StrayId == 0

TexturesInit ==
    /\ ConsoleInit
    /\ value_typed = EmptyQuoted
    /\ value_reduced = None
    /\ GraphicsInit

\* create_texture_rgb8(filepath), Uuid::new_v4() the next number, and its
\* command processed
CreateTextureRGB8(filepath) ==
    /\ Len(texture_ids) < MaxTextures
    /\ \E r \in {on_CreateTextureRGB8(texture_store, Len(texture_ids) + 1,
                                      filepath)} :
          /\ texture_store' = r.store
          /\ render_commands' = render_commands \o r.rval
    /\ texture_ids' = Append(texture_ids, filepath)
    /\ UNCHANGED deleted_ids
    /\ UNCHANGED <<console_vars, reducer_vars>>

\* delete_texture(id) and its command processed
DeleteTexture(id) ==
    /\ \E r \in {on_DeleteTexture(texture_store, id)} :
          /\ texture_store' = r.store
          /\ render_commands' = render_commands \o r.rval
    /\ deleted_ids' = deleted_ids \cup {id}
    /\ UNCHANGED texture_ids
    /\ UNCHANGED <<console_vars, reducer_vars>>

TexturesNext ==
    \/ \E filepath \in FilePaths : CreateTextureRGB8(filepath)
    \/ \E id \in {StrayId} \cup (1..Len(texture_ids)) : DeleteTexture(id)

SpecTextures == TexturesInit /\ [][TexturesNext]_vars

\* the references in use: the ids given out and not deleted since
LiveIds == (1..Len(texture_ids)) \ deleted_ids
LiveIdsOf(filepath) == {id \in LiveIds : texture_ids[id] = filepath}
\* the references in use that stand for the real texture
AliasesOf(real_id) ==
    {id \in LiveIds : id \in DOMAIN texture_store.ref_real_map
                      /\ texture_store.ref_real_map[id] = real_id}
Emitted(c) ==
    Cardinality({i \in 1..Len(render_commands) : render_commands[i] = c})
PushedBy(c) ==
    render_commands' = Append(render_commands, c)
NothingPushed == render_commands' = render_commands

\* a render-level CreateTextureRGB8 is pushed only for a file no live
\* reference stands for, and a later creation of the file aliases the real
\* id of the live ones and raises its reference count by one; a render-level
\* DeleteTexture of a real id is pushed exactly when the delete takes its
\* last live reference, and never for an id that is not live.
CreateAndDeleteOnLastReference ==
       /\ \A filepath \in FilePaths :
             CreateTextureRGB8(filepath)
             => LET id == Len(texture_ids) + 1
                IN  IF LiveIdsOf(filepath) = {}
                    THEN /\ PushedBy(RenderCreateTextureRGB8(id))
                         /\ texture_store'.ref_real_map[id] = id
                         /\ texture_store'.ref_counts[id] = 1
                    ELSE /\ NothingPushed
                         /\ \A other \in LiveIdsOf(filepath) :
                               LET real_id ==
                                       texture_store.ref_real_map[other]
                               IN  /\ texture_store'.ref_real_map[id] = real_id
                                   /\ texture_store'.ref_counts[real_id]
                                        = texture_store.ref_counts[real_id] + 1
       /\ \A id \in {StrayId} \cup (1..Len(texture_ids)) :
             DeleteTexture(id)
             => IF id \in LiveIds
                THEN LET real_id == texture_store.ref_real_map[id]
                     IN  IF AliasesOf(real_id) = {id}
                         THEN /\ PushedBy(RenderDeleteTexture(real_id))
                              /\ real_id \notin DOMAIN texture_store'.ref_counts
                         ELSE /\ NothingPushed
                              /\ texture_store'.ref_counts[real_id]
                                   = texture_store.ref_counts[real_id] - 1
                ELSE NothingPushed /\ texture_store' = texture_store

\* the store between commands: its references are the live ids; those
\* of one file stand for one real id, whose count is their number and never
\* zero; no real id is deleted twice, or deleted while a reference to it is
\* live.
StoreCountsLiveReferences ==
    /\ DOMAIN texture_store.ref_real_map = LiveIds
    /\ \A id, other \in LiveIds :
          (texture_ids[id] = texture_ids[other])
              <=> (texture_store.ref_real_map[id]
                     = texture_store.ref_real_map[other])
    /\ DOMAIN texture_store.ref_counts
         = {texture_store.ref_real_map[id] : id \in LiveIds}
    /\ \A real_id \in DOMAIN texture_store.ref_counts :
          /\ texture_store.ref_counts[real_id] /= 0
          /\ texture_store.ref_counts[real_id]
               = Cardinality(AliasesOf(real_id))
    /\ \A filepath \in FilePaths :
          filepath \in DOMAIN texture_store.path_real_map
              <=> LiveIdsOf(filepath) /= {}
    /\ \A real_id \in 1..Len(texture_ids) :
          /\ Emitted(RenderDeleteTexture(real_id)) <= 1
          /\ Emitted(RenderCreateTextureRGB8(real_id)) <= 1
          /\ Emitted(RenderDeleteTexture(real_id)) = 1
                => /\ Emitted(RenderCreateTextureRGB8(real_id)) = 1
                   /\ AliasesOf(real_id) = {}
          /\ (Emitted(RenderCreateTextureRGB8(real_id)) = 1
              /\ Emitted(RenderDeleteTexture(real_id)) = 0)
                => AliasesOf(real_id) /= {}
    /\ Emitted(RenderDeleteTexture(StrayId)) = 0

\* C30: under every sequence of CreateTextureRGB8 and DeleteTexture commands
\* the texture store counts the live references of each real texture: a real
\* texture is created only for a file without a live one, aliased and
\* counted by later creations, deleted exactly once when its last live
\* reference is deleted, and no count is ever zero between commands.
C30_TextureStoreCountsReferences ==
    [][CreateAndDeleteOnLastReference /\ StoreCountsLiveReferences']_vars

\* a file was created twice and its first id deleted: the second id still
\* stands for the real texture of the first, which is deleted with it, once,
\* and a stray and a repeated delete came in between
C30_Witness ==
    /\ Len(texture_ids) >= 2
    /\ texture_ids[1] = texture_ids[2]
    /\ deleted_ids = {StrayId, 1, 2}
    /\ render_commands
         = <<RenderCreateTextureRGB8(1), RenderDeleteTexture(1)>>

\* the alias outlives the id it stands for
C30_WitnessAliasLive ==
    /\ Len(texture_ids) >= 2
    /\ texture_ids[1] = texture_ids[2]
    /\ deleted_ids = {1}
    /\ texture_store.ref_real_map = (2 :> 1)
    /\ texture_store.ref_counts = (1 :> 1)
    /\ render_commands = <<RenderCreateTextureRGB8(1)>>

\* the file is loaded again once its texture is gone
C30_WitnessRecreated ==
    /\ texture_ids = <<"a.png", "a.png">>
    /\ deleted_ids = {1}
    /\ render_commands
         = <<RenderCreateTextureRGB8(1), RenderDeleteTexture(1),
             RenderCreateTextureRGB8(2)>>

====
